---- MODULE Spec2Model ----
(***************************************************************************)
(* A model of the forecast rendering engine of thesurf.in                  *)
(* (lib/src/ui/view/forecast.rs and its Border trait, lib/src/ui/view/     *)
(* base.rs) and of its renderers (lib/src/ui/terminal.rs, browser.rs), of  *)
(* the spot crawler's parse_spot_ids (lib/src/msw/crawler.rs) and of the   *)
(* server's get_spot_inner (server/src/main.rs).                           *)
(*                                                                         *)
(* Representation.                                                         *)
(*  - A String is a sequence of one-cell characters.  Rust's format width  *)
(*    counts chars, so Len is the number of cells a text renders to.  The  *)
(*    box-drawing glyphs are written with ASCII stand-ins (see the glyph   *)
(*    constants); every glyph is one char.                                 *)
(*  - An f32 height is a fixed-point number of tenths (30 is 3.0).         *)
(*  - A local timestamp is a number of whole hours counted from            *)
(*    Mon Feb 21 00:00; its hour is ts % 24 and its date is ts \div 24.    *)
(*  - usize subtraction that goes below zero panics when the build has     *)
(*    overflow checks (debug) and wraps otherwise (release); `build` picks *)
(*    the profile.  TLC integers are 32 bits wide, so the wrapped value    *)
(*    2^64 - k is represented by UsizeMod - k with UsizeMod = 2^30; every  *)
(*    quantity it is compared with is below 2^10.                          *)
(***************************************************************************)
EXTENDS Integers, Sequences, FiniteSets, TLC

VARIABLES
    entry,      \* the public operation under execution: "View", "Graph", "Day", "Border"
    build,      \* "debug" (overflow checks) or "release" (wrapping arithmetic)
    pc,         \* position in the operation
    forecast,   \* the Vec<Forecast> handed to the operation
    title_in,   \* the title() of the section handed to border_top (entry "Border")
    graph,      \* the Graph struct, once constructed
    cur,        \* the slice the current Day is built from
    day,        \* the Day struct, once constructed
    lines,      \* Vec<Line>: the result of the last draw_inner
    header,     \* Vec<Span>: the result of the last border_top
    days,       \* the partitions split_inclusive still has to yield
    sections,   \* the slices Day sections were drawn from, in order (ghost)
    spans,      \* View.spans / the Vec<Span> under construction
    panic,      \* "none", or the reason the operation panicked
    args,       \* the arguments a function is still to be called with, and was
    ret,        \* what the calls returned, in order; a renderer's output String
    anchors,    \* the anchors the loop of parse_spot_ids has still to visit
    spot_json_map,  \* the Map parse_spot_ids collects the spots in
    writer,     \* what the writer given to parse_spot_ids has received
    requests    \* the forecast requests get_spot_inner has sent, in order

vars == <<entry, build, pc, forecast, title_in, graph, cur, day, lines, header,
          days, sections, spans, panic, args, ret, anchors, spot_json_map, writer,
          requests>>

-----------------------------------------------------------------------------
(* Bounds of the model *)

\* longest forecast given to Graph in the width family
MaxBins == 90
\* longest slice given to Day in the width family
MaxDayBins == 80
\* longest forecast of the small-input families
MaxRecs == 4
\* abs_max_breaking_height ranges over 0, 0.4, ..., 0.4 * MaxAbsSteps
MaxAbsSteps == 11
\* longest title handed to border_top
MaxTitle == 89
\* scale is called with the heights -0.6, -0.4, ..., -0.6 + 0.2 * MaxScaleSteps
MaxScaleSteps == 33
\* solid_rating and faded_rating range over 0..MaxRating
MaxRating == 5
\* longest View handed to a renderer on its own
MaxSpans == 2
\* longest forecast handed to ui::render
MaxUiRecs == 2
\* longest chain of Style setters called on a span
MaxSetters == 2
\* longest forecast of the max_breaking_height family
MaxHeightRecs == 3

-----------------------------------------------------------------------------
(* Program constants *)

VIEWPOINT_WIDTH == 90
INTERIOR_VIEWPOINT_WIDTH == VIEWPOINT_WIDTH - 2
SWELL_GRAPH_HEIGHT == 10
LEGEND_WIDTH == 11
BOUNDARY_WIDTH == 1

\* base.rs glyphs; ASCII stand-ins for the box-drawing characters
LINE_VERT == "|"
LINE_HORIZONTAL == "--"
CORNER_TOP_LEFT == "TL"
CORNER_TOP_RIGHT == "TR"
CORNER_BTM_LEFT == "BL"
CORNER_BTM_RIGHT == "BR"
TEE_LEFT == "T<"
TEE_RIGHT == "T>"

UsizeMod == 2^30

-----------------------------------------------------------------------------
(* Strings and formatting (std::fmt) *)

Rep(c, n) == [i \in 1..n |-> c]

Digit(d) == <<"0", "1", "2", "3", "4", "5", "6", "7", "8", "9">>[d + 1]

RECURSIVE DecStr(_)
\* Display of a non-negative integer
DecStr(n) == IF n < 10 THEN <<Digit(n)>> ELSE DecStr(n \div 10) \o <<Digit(n % 10)>>

\* Display of an i32
IntStr(n) == IF n < 0 THEN <<"-">> \o DecStr(0 - n) ELSE DecStr(n)

\* Display of an f32 holding t tenths: the shortest text that reads back
F32Str(t) == IF t % 10 = 0 THEN DecStr(t \div 10)
             ELSE DecStr(t \div 10) \o <<".">> \o DecStr(t % 10)

\* {:.1} of an f32 holding t tenths
F32Str1(t) == DecStr(t \div 10) \o <<".">> \o DecStr(t % 10)

\* {:c^width$}: centred, the odd cell of padding goes right; never truncates
PadCenter(text, width, fill) ==
    IF Len(text) >= width THEN text
    ELSE LET padding == width - Len(text)
             left == padding \div 2
         IN Rep(fill, left) \o text \o Rep(fill, padding - left)

\* {:width$} of a string: left-aligned, padded with spaces; never truncates
PadLeftAlign(text, width) ==
    IF Len(text) >= width THEN text ELSE text \o Rep(" ", width - Len(text))

\* {:>width$}: right-aligned
PadRightAlign(text, width) ==
    IF Len(text) >= width THEN text ELSE Rep(" ", width - Len(text)) \o text

-----------------------------------------------------------------------------
(* Document model (base.rs) *)

StyleDefault == [fg |-> "None", bg |-> "None", bold |-> FALSE]

SpanNew(text) == [newline |-> FALSE, text |-> text, style |-> StyleDefault]

SpanNewline == [newline |-> TRUE, text |-> <<>>, style |-> StyleDefault]

\* Style::fg, on the style of a span
StyleFg(span, color) == [span EXCEPT !.style.fg = color]

\* StyleBg writing the foreground
StyleBgAsFg(span, color) == [span EXCEPT !.style.fg = color]

\* Style::bg, on the style of a span
StyleBg(span, color) == [span EXCEPT !.style.bg = color]

\* Style::bold, on the style of a span
StyleBold(span) == [span EXCEPT !.style.bold = TRUE]

\* the number of cells a Line renders to
LineWidth(line) ==
    LET RECURSIVE Sum(_)
        Sum(i) == IF i = 0 THEN 0 ELSE Sum(i - 1) + Len(line[i].text)
    IN Sum(Len(line))

\* the characters of a Line, in order
RECURSIVE Flatten(_)
Flatten(line) == IF line = <<>> THEN <<>> ELSE Head(line).text \o Flatten(Tail(line))

-----------------------------------------------------------------------------
(* Forecast records (msw/forecast.rs) *)

UnitLengthStr(u) == IF u = "Feet" THEN <<"f", "t">> ELSE <<"m">>

Hour(fc) == fc.local_timestamp % 24

Date(fc) == fc.local_timestamp \div 24

WeekdayStr(d) ==
    <<<<"M", "o", "n">>, <<"T", "u", "e">>, <<"W", "e", "d">>, <<"T", "h", "u">>,
      <<"F", "r", "i">>, <<"S", "a", "t">>, <<"S", "u", "n">>>>[(d % 7) + 1]

\* format("%a %b %d") of date d, counted in days from Mon Feb 21 of a common year;
\* %d is the day of the month, zero-padded to two digits
DateStr(d) ==
    LET month == IF d <= 7 THEN <<"F", "e", "b">> ELSE <<"M", "a", "r">>
        mday == IF d <= 7 THEN 21 + d ELSE d - 7
    IN WeekdayStr(d) \o <<" ">> \o month \o <<" ">>
       \o (IF mday < 10 THEN <<"0">> ELSE <<>>) \o DecStr(mday)

-----------------------------------------------------------------------------
(* Border (forecast.rs, trait Border) *)

\* border_top: the title padded with a space on each side
PaddedTitle(title_str) == <<" ">> \o title_str \o <<" ">>

\* border_top: the top line
HeaderTop(title_str) ==
    LET box_top == <<CORNER_TOP_LEFT>>
                   \o PadCenter(<<>>, Len(PaddedTitle(title_str)), LINE_HORIZONTAL)
                   \o <<CORNER_TOP_RIGHT>>
    IN PadCenter(box_top, VIEWPOINT_WIDTH, " ")

\* HeaderMid centring the title box in the whole viewport, not its interior
HeaderMidOuter(title_str) ==
    LET box_mid == <<TEE_LEFT>> \o PaddedTitle(title_str) \o <<TEE_RIGHT>>
    IN <<CORNER_TOP_LEFT>>
       \o PadCenter(box_mid, VIEWPOINT_WIDTH, LINE_HORIZONTAL)
       \o <<CORNER_TOP_RIGHT>>

\* border_top: the middle (title) line
HeaderMid(title_str) ==
    LET box_mid == <<TEE_LEFT>> \o PaddedTitle(title_str) \o <<TEE_RIGHT>>
    IN <<CORNER_TOP_LEFT>>
       \o PadCenter(box_mid, INTERIOR_VIEWPOINT_WIDTH, LINE_HORIZONTAL)
       \o <<CORNER_TOP_RIGHT>>

\* HeaderBtm centring the box in the whole viewport between the two side walls
HeaderBtmOuter(title_str) ==
    LET box_btm == <<CORNER_BTM_LEFT>>
                   \o PadCenter(<<>>, Len(PaddedTitle(title_str)), LINE_HORIZONTAL)
                   \o <<CORNER_BTM_RIGHT>>
    IN <<LINE_VERT>> \o PadCenter(box_btm, VIEWPOINT_WIDTH, " ")
       \o <<LINE_VERT>>

\* border_top: the bottom line of the header
HeaderBtm(title_str) ==
    LET box_btm == <<CORNER_BTM_LEFT>>
                   \o PadCenter(<<>>, Len(PaddedTitle(title_str)), LINE_HORIZONTAL)
                   \o <<CORNER_BTM_RIGHT>>
    IN <<LINE_VERT>> \o PadCenter(box_btm, INTERIOR_VIEWPOINT_WIDTH, " ")
       \o <<LINE_VERT>>

\* border_top: the three header lines, separated by line breaks
BorderTop(title_str) ==
    <<SpanNew(HeaderTop(title_str)), SpanNewline,
      SpanNew(HeaderMid(title_str)), SpanNewline,
      SpanNew(HeaderBtm(title_str))>>

\* border_bottom
BorderBottom ==
    <<SpanNew(<<CORNER_BTM_LEFT>>
              \o PadCenter(<<>>, INTERIOR_VIEWPOINT_WIDTH, LINE_HORIZONTAL)
              \o <<CORNER_BTM_RIGHT>>)>>

\* [Line].join(&border_wrap)
RECURSIVE JoinLines(_, _)
JoinLines(inner, sep) ==
    IF inner = <<>> THEN <<>>
    ELSE IF Len(inner) = 1 THEN inner[1]
    ELSE inner[1] \o sep \o JoinLines(Tail(inner), sep)

\* Border pushing a line break after the bottom border too
BorderTrailingBreak(title_str, inner) ==
    LET border_wrap == <<SpanNew(<<LINE_VERT>>), SpanNewline, SpanNew(<<LINE_VERT>>)>>
    IN BorderTop(title_str) \o <<SpanNewline>>
       \o <<SpanNew(<<LINE_VERT>>)>> \o JoinLines(inner, border_wrap)
       \o <<SpanNew(<<LINE_VERT>>), SpanNewline>>
       \o BorderBottom \o <<SpanNewline>>

\* border: wrap the interior lines with a titled border
Border(title_str, inner) ==
    LET border_wrap == <<SpanNew(<<LINE_VERT>>), SpanNewline, SpanNew(<<LINE_VERT>>)>>
    IN BorderTop(title_str) \o <<SpanNewline>>
       \o <<SpanNew(<<LINE_VERT>>)>> \o JoinLines(inner, border_wrap)
       \o <<SpanNew(<<LINE_VERT>>), SpanNewline>>
       \o BorderBottom

-----------------------------------------------------------------------------
(* Graph (forecast.rs) *)

MaxOf(S) == CHOOSE m \in S : \A x \in S : x <= m

MinOf(S) == CHOOSE m \in S : \A x \in S : m <= x

\* GraphNew taking the height of the first record for the maximum
GraphNewFirstRecord(fcs) ==
    LET buffer == IF fcs[1].swell.unit = "Feet" THEN 10 ELSE 5
    IN [forecast |-> fcs,
        min_swell_height |-> 0,
        max_swell_height |-> fcs[1].swell.max_breaking_height + buffer,
        midnight |-> fcs[1]]

\* Graph::new, past its assert: heights in tenths
GraphNew(fcs) ==
    LET buffer == IF fcs[1].swell.unit = "Feet" THEN 10 ELSE 5
    IN [forecast |-> fcs,
        min_swell_height |-> 0,
        max_swell_height |->
            MaxOf({fcs[i].swell.max_breaking_height : i \in 1..Len(fcs)}) + buffer,
        midnight |-> fcs[1]]

\* Graph::title
GraphTitle(g) ==
    LET stamps == {g.forecast[i].local_timestamp : i \in 1..Len(g.forecast)}
    IN DateStr(MinOf(stamps) \div 24) \o <<" ", "-", " ">> \o DateStr(MaxOf(stamps) \div 24)

\* LegendColumn without the right-alignment of the two numbers to one width
LegendColumnUnpadded(g) ==
    LET unit_str == UnitLengthStr(g.midnight.swell.unit)
        legend_max == <<" ">> \o F32Str(g.max_swell_height) \o <<" ">> \o unit_str \o <<" ">>
        legend_min == <<" ">> \o F32Str(g.min_swell_height) \o <<" ">> \o unit_str \o <<" ">>
        legend_width == Len(legend_max)
    IN [bin |-> [y \in 1..SWELL_GRAPH_HEIGHT |->
                    IF y = 1 THEN SpanNew(legend_max)
                    ELSE IF y = SWELL_GRAPH_HEIGHT THEN SpanNew(legend_min)
                    ELSE SpanNew(PadLeftAlign(<<>>, legend_width))],
        width |-> legend_width,
        max_len |-> Len(legend_max),
        min_len |-> Len(legend_min)]

\* legend_column: the legend spans (index 1 is row 0) and their width
LegendColumn(g) ==
    LET unit_str == UnitLengthStr(g.midnight.swell.unit)
        legend_max_str == F32Str(g.max_swell_height)
        legend_min_str == F32Str(g.min_swell_height)
        legend_num_str_len ==
            IF Len(legend_min_str) >= Len(legend_max_str)
            THEN Len(legend_min_str) ELSE Len(legend_max_str)
        legend_max == <<" ">> \o PadRightAlign(legend_max_str, legend_num_str_len)
                      \o <<" ">> \o unit_str \o <<" ">>
        legend_min == <<" ">> \o PadRightAlign(legend_min_str, legend_num_str_len)
                      \o <<" ">> \o unit_str \o <<" ">>
        legend_width == Len(legend_max)
    IN [bin |-> [y \in 1..SWELL_GRAPH_HEIGHT |->
                    IF y = 1 THEN SpanNew(legend_max)
                    ELSE IF y = SWELL_GRAPH_HEIGHT THEN SpanNew(legend_min)
                    ELSE SpanNew(PadLeftAlign(<<>>, legend_width))],
        width |-> legend_width,
        max_len |-> Len(legend_max),
        min_len |-> Len(legend_min)]

\* Scale measuring the height down from the top of the range
ScaleFromTop(g, height) ==
    LET swell_range == g.max_swell_height - g.min_swell_height
        rounded == (2 * SWELL_GRAPH_HEIGHT * (g.max_swell_height - height) + swell_range)
                       \div (2 * swell_range)
    IN IF rounded < 0 THEN 0 ELSE rounded

\* scale: round() is half away from zero; `as usize` keeps a non-negative value
\* and saturates a negative one to 0
Scale(g, height) ==
    LET swell_range == g.max_swell_height - g.min_swell_height
        rounded == (2 * SWELL_GRAPH_HEIGHT * (height - g.min_swell_height) + swell_range)
                       \div (2 * swell_range)
    IN IF rounded < 0 THEN 0 ELSE rounded

\* Color matching the faded rating before the solid one
ColorFadedFirst(fc) ==
    IF fc.faded_rating = 0 THEN "Green"
    ELSE IF fc.solid_rating = 0 THEN "Red"
    ELSE "Blue"

\* color
Color(fc) ==
    IF fc.solid_rating = 0 THEN "Red"
    ELSE IF fc.faded_rating = 0 THEN "Green"
    ELSE "Blue"

\* draw_inner: num_bin_boundaries
GraphNumBinBoundaries(num_bins) == num_bins - 1

\* draw_inner: INTERIOR_VIEWPOINT_WIDTH - legend_width - num_bin_boundaries, unchecked
GraphFreeWidth(g) ==
    INTERIOR_VIEWPOINT_WIDTH - LegendColumn(g).width
        - GraphNumBinBoundaries(Len(g.forecast))

\* draw_inner: bin_width
GraphBinWidth(g) == GraphFreeWidth(g) \div Len(g.forecast)

\* draw_inner: used_space
GraphUsedSpace(g) ==
    LegendColumn(g).width + GraphNumBinBoundaries(Len(g.forecast))
        + Len(g.forecast) * GraphBinWidth(g)

\* GraphRightMargin taken from the whole viewport, not its interior
GraphRightMarginOuter(g) == VIEWPOINT_WIDTH - GraphUsedSpace(g)

\* draw_inner: right_margin
GraphRightMargin(g) == INTERIOR_VIEWPOINT_WIDTH - GraphUsedSpace(g)

\* draw_inner: height of bin x; a scale above the graph height wraps (release)
GlyphRow(g, x) ==
    LET scaled == Scale(g, g.forecast[x].swell.abs_max_breaking_height)
    IN IF scaled <= SWELL_GRAPH_HEIGHT THEN SWELL_GRAPH_HEIGHT - scaled
       ELSE UsizeMod - (scaled - SWELL_GRAPH_HEIGHT)

\* std::cmp::Ord::cmp
Cmp(a, b) == IF a < b THEN "Less" ELSE IF a = b THEN "Equal" ELSE "Greater"

\* BinFill with the dotted and the blank side exchanged
BinFillReversed(height, y, bin_width) ==
    LET c == Cmp(height, y)
    IN IF c = "Equal" THEN PadCenter(<<>>, bin_width, LINE_HORIZONTAL)
       ELSE IF c = "Greater" THEN PadCenter(<<>>, bin_width, ".")
       ELSE PadLeftAlign(<<>>, bin_width)

\* draw_inner, "Fill in bin": the text of bin cell at row y
BinFill(height, y, bin_width) ==
    LET c == Cmp(height, y)
    IN IF c = "Equal" THEN PadCenter(<<>>, bin_width, LINE_HORIZONTAL)
       ELSE IF c = "Less" THEN PadCenter(<<>>, bin_width, ".")
       ELSE PadLeftAlign(<<>>, bin_width)

\* BoundaryGlyph comparing the left bin with the right one, not the right with the left
BoundaryGlyphSwapped(height, last_height, y) ==
    LET a == Cmp(last_height, height)
        b == Cmp(last_height, y)
        c == Cmp(height, y)
    IN IF b = "Greater" /\ c = "Greater" THEN " "
       ELSE IF b = "Less" /\ c = "Less" THEN "."
       ELSE IF (b = "Greater" /\ c = "Less") \/ (b = "Less" /\ c = "Greater")
            THEN LINE_VERT
       ELSE IF a = "Equal" THEN LINE_HORIZONTAL
       ELSE IF a = "Greater" /\ b = "Equal" THEN CORNER_BTM_LEFT
       ELSE IF a = "Less" /\ b = "Equal" THEN CORNER_TOP_LEFT
       ELSE IF a = "Greater" /\ c = "Equal" THEN CORNER_TOP_RIGHT
       ELSE CORNER_BTM_RIGHT

\* BoundaryGlyph with the corners of the right bin's row exchanged
BoundaryGlyphCorners(height, last_height, y) ==
    LET a == Cmp(height, last_height)
        b == Cmp(height, y)
        c == Cmp(last_height, y)
    IN IF b = "Greater" /\ c = "Greater" THEN " "
       ELSE IF b = "Less" /\ c = "Less" THEN "."
       ELSE IF (b = "Greater" /\ c = "Less") \/ (b = "Less" /\ c = "Greater")
            THEN LINE_VERT
       ELSE IF a = "Equal" THEN LINE_HORIZONTAL
       ELSE IF a = "Greater" /\ b = "Equal" THEN CORNER_TOP_LEFT
       ELSE IF a = "Less" /\ b = "Equal" THEN CORNER_BTM_LEFT
       ELSE IF a = "Greater" /\ c = "Equal" THEN CORNER_TOP_RIGHT
       ELSE CORNER_BTM_RIGHT

\* draw_inner, "Fill in left-side boundary": the match, first arm first
BoundaryGlyph(height, last_height, y) ==
    LET a == Cmp(height, last_height)
        b == Cmp(height, y)
        c == Cmp(last_height, y)
    IN IF b = "Greater" /\ c = "Greater" THEN " "
       ELSE IF b = "Less" /\ c = "Less" THEN "."
       ELSE IF (b = "Greater" /\ c = "Less") \/ (b = "Less" /\ c = "Greater")
            THEN LINE_VERT
       ELSE IF a = "Equal" THEN LINE_HORIZONTAL
       ELSE IF a = "Greater" /\ b = "Equal" THEN CORNER_BTM_LEFT
       ELSE IF a = "Less" /\ b = "Equal" THEN CORNER_TOP_LEFT
       ELSE IF a = "Greater" /\ c = "Equal" THEN CORNER_TOP_RIGHT
       ELSE CORNER_BTM_RIGHT

\* GraphBoundaryColor taking the color of the bin left of the boundary
GraphBoundaryColorLeft(g, x) == Color(g.forecast[x])

\* draw_inner: the color of the boundary between bins x and x + 1 (from 1); it is
\* drawn in the iteration of bin x + 1, with that bin's color
GraphBoundaryColor(g, x) == Color(g.forecast[x + 1])

\* bin.into_iter().interleave(boundary)
Interleave(bin, boundary) ==
    [i \in 1..(Len(bin) + Len(boundary)) |->
        IF i % 2 = 1 THEN bin[(i + 1) \div 2] ELSE boundary[i \div 2]]

\* draw_inner, when it does not panic: the SWELL_GRAPH_HEIGHT lines (index 1 is row 0)
GraphDrawInner(g) ==
    LET legend == LegendColumn(g)
        num_bins == Len(g.forecast)
        bin_width == GraphBinWidth(g)
        right_margin == GraphRightMargin(g)
        height == [x \in 1..num_bins |-> GlyphRow(g, x)]
        color == [x \in 1..num_bins |-> Color(g.forecast[x])]
        bins(y) == [x \in 1..num_bins |->
                       StyleFg(SpanNew(BinFill(height[x], y, bin_width)), color[x])]
        boundaries(y) == [x \in 1..GraphNumBinBoundaries(num_bins) |->
                             StyleFg(SpanNew(<<BoundaryGlyph(height[x + 1], height[x], y)>>),
                                     GraphBoundaryColor(g, x))]
    IN [r \in 1..SWELL_GRAPH_HEIGHT |->
           <<legend.bin[r]>> \o Interleave(bins(r - 1), boundaries(r - 1))
               \o <<SpanNew(PadLeftAlign(<<>>, right_margin))>>]

\* draw_inner: why it panics ("none" when it returns)
GraphDrawPanic(g, profile) ==
    IF LegendColumn(g).max_len # LegendColumn(g).min_len THEN "assert_legend_len"
    ELSE IF GraphFreeWidth(g) < 0
    THEN (IF profile = "debug" THEN "subtract_overflow" ELSE "alloc_failure")
    ELSE IF GraphRightMargin(g) < 0
    THEN (IF profile = "debug" THEN "subtract_overflow" ELSE "alloc_failure")
    ELSE IF profile = "debug"
            /\ \E x \in 1..Len(g.forecast) :
                  Scale(g, g.forecast[x].swell.abs_max_breaking_height) > SWELL_GRAPH_HEIGHT
    THEN "subtract_overflow_height"
    ELSE "none"

-----------------------------------------------------------------------------
(* Day (forecast.rs) *)

\* Display of UnitSpeed
UnitSpeedStr(u) == IF u = "Mph" THEN <<"m", "p", "h">> ELSE <<"k", "p", "h">>

\* Display of UnitTemperature; the degree sign is one char
UnitTemperatureStr(u) == IF u = "C" THEN <<"deg", "C">> ELSE <<"deg", "F">>

\* compass_to_arrow with SSE grouped with S
compass_to_arrow_skewed(dir) ==
    IF dir = "N" THEN "DOWN"
    ELSE IF dir \in {"NNE", "NE", "ENE"} THEN "DOWN_LEFT"
    ELSE IF dir = "E" THEN "LEFT"
    ELSE IF dir \in {"ESE", "SE"} THEN "UP_LEFT"
    ELSE IF dir \in {"SSE", "S"} THEN "UP"
    ELSE IF dir \in {"SSW", "SW", "WSW"} THEN "UP_RIGHT"
    ELSE IF dir = "W" THEN "RIGHT"
    ELSE "DOWN_RIGHT"

\* compass_to_arrow; each arrow is one char
compass_to_arrow(dir) ==
    IF dir = "N" THEN "DOWN"
    ELSE IF dir \in {"NNE", "NE", "ENE"} THEN "DOWN_LEFT"
    ELSE IF dir = "E" THEN "LEFT"
    ELSE IF dir \in {"ESE", "SE", "SSE"} THEN "UP_LEFT"
    ELSE IF dir = "S" THEN "UP"
    ELSE IF dir \in {"SSW", "SW", "WSW"} THEN "UP_RIGHT"
    ELSE IF dir = "W" THEN "RIGHT"
    ELSE "DOWN_RIGHT"

\* str::trim
RECURSIVE TrimStart(_)
TrimStart(text) ==
    IF text # <<>> /\ Head(text) = " " THEN TrimStart(Tail(text)) ELSE text

RECURSIVE TrimEnd(_)
TrimEnd(text) ==
    IF text # <<>> /\ text[Len(text)] = " "
    THEN TrimEnd(SubSeq(text, 1, Len(text) - 1)) ELSE text

Trim(text) == TrimEnd(TrimStart(text))

\* chrono format("%l%P"): 12-hour clock hour padded with a space, then am/pm
TimeFormat(hour) ==
    LET h12 == IF hour % 12 = 0 THEN 12 ELSE hour % 12
    IN PadRightAlign(DecStr(h12), 2) \o (IF hour < 12 THEN <<"a", "m">> ELSE <<"p", "m">>)

\* Day::new: INTERIOR_VIEWPOINT_WIDTH - num_boundaries * BOUNDARY_WIDTH - LEGEND_WIDTH,
\* unchecked
DayFreeWidth(fcs) ==
    INTERIOR_VIEWPOINT_WIDTH - Len(fcs) * BOUNDARY_WIDTH - LEGEND_WIDTH

\* Day::new: bin_width
DayBinWidth(fcs) == DayFreeWidth(fcs) \div Len(fcs)

\* Day::new: used_space
DayUsedSpace(fcs) ==
    LEGEND_WIDTH + Len(fcs) * BOUNDARY_WIDTH + Len(fcs) * DayBinWidth(fcs)

\* Day::new, past its assert and its subtractions
DayNew(fcs) ==
    [forecast |-> fcs,
     bin_width |-> DayBinWidth(fcs),
     right_margin |-> INTERIOR_VIEWPOINT_WIDTH - DayUsedSpace(fcs)]

\* DayNewPanic without the assert: the division by the length fails instead
DayNewPanicNoAssert(fcs, profile) ==
    IF fcs = <<>> THEN "divide_by_zero"
    ELSE IF DayFreeWidth(fcs) < 0
    THEN (IF profile = "debug" THEN "subtract_overflow" ELSE "alloc_failure")
    ELSE "none"

\* Day::new: why it panics ("none" when it returns)
DayNewPanic(fcs, profile) ==
    IF fcs = <<>> THEN "assert_not_empty"
    ELSE IF DayFreeWidth(fcs) < 0
    THEN (IF profile = "debug" THEN "subtract_overflow" ELSE "alloc_failure")
    ELSE "none"

\* Day::title
DayTitle(d) == DateStr(Date(d.forecast[1]))

\* Day::boundary
DayBoundary == SpanNew(PadCenter(<<>>, BOUNDARY_WIDTH, " "))

\* a row of the table: the legend, a boundary and a cell per record, the margin
DayRow(d, legend, cells) ==
    <<SpanNew(PadCenter(legend, LEGEND_WIDTH, " "))>>
    \o [i \in 1..(2 * Len(d.forecast)) |->
           IF i % 2 = 1 THEN DayBoundary
           ELSE SpanNew(PadCenter(cells[i \div 2], d.bin_width, " "))]
    \o <<SpanNew(PadLeftAlign(<<>>, d.right_margin))>>

\* Day::time
DayTime(d) ==
    LET cell(fc) == Trim(TimeFormat(Hour(fc)))
    IN <<DayRow(d, <<"T", "i", "m", "e">>, [i \in 1..Len(d.forecast) |-> cell(d.forecast[i])])>>

\* Day::swell
DaySwell(d, legend, which) ==
    LET comp(fc) == IF which = "primary" THEN fc.swell.components.primary
                    ELSE fc.swell.components.secondary
        height(fc) == IF comp(fc).some
                      THEN F32Str1(comp(fc).height) \o <<" ">> \o UnitLengthStr(fc.swell.unit)
                      ELSE <<>>
        period(fc) == IF comp(fc).some THEN DecStr(comp(fc).period) \o <<"s">> ELSE <<>>
        dir(fc) == IF comp(fc).some
                   THEN <<compass_to_arrow(comp(fc).compass_direction), " ">>
                        \o DecStr(comp(fc).direction) \o <<"deg">>
                   ELSE <<>>
    IN <<DayRow(d, <<>>, [i \in 1..Len(d.forecast) |-> height(d.forecast[i])]),
         DayRow(d, legend, [i \in 1..Len(d.forecast) |-> period(d.forecast[i])]),
         DayRow(d, <<"S", "w", "e", "l", "l">>, [i \in 1..Len(d.forecast) |-> dir(d.forecast[i])])>>

\* Day::is_primary_present
IsPrimaryPresent(d) ==
    \E i \in 1..Len(d.forecast) : d.forecast[i].swell.components.primary.some

\* IsSecondaryPresent asking for a secondary component in every record
IsSecondaryPresentAll(d) ==
    \A i \in 1..Len(d.forecast) : d.forecast[i].swell.components.secondary.some

\* Day::is_secondary_present
IsSecondaryPresent(d) ==
    \E i \in 1..Len(d.forecast) : d.forecast[i].swell.components.secondary.some

\* Day::primary_swell
DayPrimarySwell(d) ==
    IF IsPrimaryPresent(d)
    THEN DaySwell(d, <<"P", "r", "i", "m", "a", "r", "y">>, "primary")
    ELSE <<>>

\* Day::secondary_swell
DaySecondarySwell(d) ==
    IF IsSecondaryPresent(d)
    THEN DaySwell(d, <<"S", "e", "c", "o", "n", "d", "a", "r", "y">>, "secondary")
    ELSE <<>>

\* Day::wind
DayWind(d) ==
    LET speed(fc) == DecStr(fc.wind.speed) \o <<" ">> \o UnitSpeedStr(fc.wind.unit)
        dir(fc) == <<compass_to_arrow(fc.wind.compass_direction), " ">>
                   \o DecStr(fc.wind.direction) \o <<"deg">>
    IN <<DayRow(d, <<" ">>, [i \in 1..Len(d.forecast) |-> speed(d.forecast[i])]),
         DayRow(d, <<" ", "W", "i", "n", "d">>, [i \in 1..Len(d.forecast) |-> dir(d.forecast[i])])>>

\* Day::weather
DayWeather(d) ==
    LET cell(fc) == IntStr(fc.condition.temperature) \o <<" ">>
                    \o UnitTemperatureStr(fc.condition.unit_temperature)
    IN <<DayRow(d, <<"A", "i", "r">>, [i \in 1..Len(d.forecast) |-> cell(d.forecast[i])])>>

\* Day::draw_inner
DayDrawInner(d) ==
    LET skip_line == <<SpanNew(PadCenter(<<>>, INTERIOR_VIEWPOINT_WIDTH, " "))>>
    IN DayTime(d) \o <<skip_line>>
       \o DayPrimarySwell(d) \o <<skip_line>>
       \o (IF IsSecondaryPresent(d) THEN DaySecondarySwell(d) \o <<skip_line>> ELSE <<>>)
       \o DayWind(d) \o <<skip_line>>
       \o DayWeather(d)

-----------------------------------------------------------------------------
(* View assembly (forecast.rs, impl From<Vec<Forecast>> for View) *)

\* SplitInclusive cutting before the matched record, which then starts a slice
RECURSIVE SplitBefore(_)
SplitBefore(fcs) ==
    IF fcs = <<>> THEN <<>>
    ELSE LET hits == {i \in 2..Len(fcs) : Hour(fcs[i]) = 21}
         IN IF hits = {} THEN <<fcs>>
            ELSE LET idx == MinOf(hits)
                 IN <<SubSeq(fcs, 1, idx - 1)>>
                    \o SplitBefore(SubSeq(fcs, idx, Len(fcs)))

\* the records of a slice in ascending order of local_timestamp
RECURSIVE SortByTime(_)
SortByTime(fcs) ==
    IF fcs = <<>> THEN <<>>
    ELSE LET first == CHOOSE i \in 1..Len(fcs) :
                          \A j \in 1..Len(fcs) :
                              fcs[i].local_timestamp <= fcs[j].local_timestamp
         IN <<fcs[first]>>
            \o SortByTime([k \in 1..(Len(fcs) - 1) |->
                               IF k < first THEN fcs[k] ELSE fcs[k + 1]])

\* SplitInclusive putting the records in order of time before it cuts
RECURSIVE SplitSorted(_)
SplitSorted(fcs) ==
    IF fcs = <<>> THEN <<>>
    ELSE LET sorted == SortByTime(fcs)
             hits == {i \in 1..Len(sorted) : Hour(sorted[i]) = 21}
         IN IF hits = {} THEN <<sorted>>
            ELSE LET idx == CHOOSE m \in hits : \A x \in hits : m <= x
                 IN <<SubSeq(sorted, 1, idx)>>
                    \o SplitSorted(SubSeq(sorted, idx + 1, Len(sorted)))

\* slice::split_inclusive with the predicate hour() == 21: the slices the iterator
\* yields; the matched record ends its slice, and no slice follows a match that is
\* the last record
RECURSIVE SplitInclusive(_)
SplitInclusive(fcs) ==
    IF fcs = <<>> THEN <<>>
    ELSE LET hits == {i \in 1..Len(fcs) : Hour(fcs[i]) = 21}
         IN IF hits = {} THEN <<fcs>>
            ELSE LET idx == MinOf(hits)
                 IN <<SubSeq(fcs, 1, idx)>>
                    \o SplitInclusive(SubSeq(fcs, idx + 1, Len(fcs)))

-----------------------------------------------------------------------------
(* Renderers (terminal.rs, browser.rs) *)

\* RECURSIVE concatenation of a sequence of strings
RECURSIVE Concat(_)
Concat(ss) ==
    IF ss = <<>> THEN <<>>
    ELSE IF Len(ss) = 1 THEN ss[1]
    ELSE LET half == Len(ss) \div 2
         IN Concat(SubSeq(ss, 1, half)) \o Concat(SubSeq(ss, half + 1, Len(ss)))

\* terminal.rs, mod ansi; "ESC" is the escape character \x1B
RED == <<"ESC", "[", "0", ";", "3", "1", "m">>
GREEN == <<"ESC", "[", "0", ";", "3", "2", "m">>
BLUE == <<"ESC", "[", "0", ";", "3", "4", "m">>
RESET == <<"ESC", "[", "0", "m">>

\* terminal.rs, to_code
to_code(color) ==
    IF color = "Red" THEN RED
    ELSE IF color = "Blue" THEN BLUE
    ELSE GREEN

\* match span.content: the text, or the line feed character
ContentStr(span) == IF span.newline THEN <<"\n">> ELSE span.text

\* TerminalSpan pushing the reset in the Text arm only
TerminalSpanTextReset(span) ==
    (IF span.style.fg # "None" THEN to_code(span.style.fg) ELSE <<>>)
    \o ContentStr(span)
    \o (IF span.style.fg # "None" /\ ~span.newline THEN RESET ELSE <<>>)

\* TerminalSpan writing the bold escape of a bold span
TerminalSpanBold(span) ==
    (IF span.style.bold THEN <<"ESC", "[", "1", "m">> ELSE <<>>)
    \o (IF span.style.fg # "None" THEN to_code(span.style.fg) ELSE <<>>)
    \o ContentStr(span)
    \o (IF span.style.fg # "None" THEN RESET ELSE <<>>)

\* Terminal::render, the body of the loop: what one span appends to the output
TerminalSpan(span) ==
    (IF span.style.fg # "None" THEN to_code(span.style.fg) ELSE <<>>)
    \o ContentStr(span)
    \o (IF span.style.fg # "None" THEN RESET ELSE <<>>)

\* Terminal::render
TerminalRender(view_spans) ==
    Concat([i \in 1..Len(view_spans) |-> TerminalSpan(view_spans[i])])

\* browser.rs, color_to_str
color_to_str(color) ==
    IF color = "Red" THEN "red"
    ELSE IF color = "Green" THEN "green"
    ELSE "blue"

\* Browser::render, the preamble: its tags in order, one element each; the style
\* sheet is one element and the white space between the tags is left out
PREAMBLE ==
    <<"<html>", "<head>", "<link rel=\"stylesheet\">", "<style type=\"text/css\">",
      "css", "</style>", "</head>", "<body>", "<pre>">>

\* Browser::render, the closing tags; the raw string starts with a line feed and
\* an indentation that are still inside the <pre>
CLOSING == <<"\n", "indent", "</pre>", "</body>", "\n", "indent", "</html>", "\n", "indent">>

\* BrowserSpan writing a line break as a <br> tag
BrowserSpanBr(span) ==
    (IF span.style.fg # "None"
     THEN <<"<span class=\"", color_to_str(span.style.fg), "\">">> ELSE <<>>)
    \o (IF span.newline THEN <<"<br>">> ELSE span.text)
    \o (IF span.style.fg # "None" THEN <<"</span>">> ELSE <<>>)

\* Browser::render, the body of the loop: what one span appends to the output; a
\* string literal pushed by one push_str is one element
BrowserSpan(span) ==
    (IF span.style.fg # "None"
     THEN <<"<span class=\"", color_to_str(span.style.fg), "\">">> ELSE <<>>)
    \o ContentStr(span)
    \o (IF span.style.fg # "None" THEN <<"</span>">> ELSE <<>>)

\* Browser::render
BrowserRender(view_spans) ==
    PREAMBLE
    \o Concat([i \in 1..Len(view_spans) |-> BrowserSpan(view_spans[i])])
    \o CLOSING

-----------------------------------------------------------------------------
(* Inputs *)

NoComponent ==
    [some |-> FALSE, height |-> 0, period |-> 0, direction |-> 0, compass_direction |-> "N"]

SomeComponent(height, period, direction, compass) ==
    [some |-> TRUE, height |-> height, period |-> period, direction |-> direction,
     compass_direction |-> compass]

\* a Forecast record; heights in tenths, directions in whole degrees
MkForecast(ts, abs_max, max, unit, solid, faded, primary, secondary, speed, temp) ==
    [local_timestamp |-> ts,
     solid_rating |-> solid,
     faded_rating |-> faded,
     swell |-> [max_breaking_height |-> max,
                abs_max_breaking_height |-> abs_max,
                unit |-> unit,
                components |-> [primary |-> primary, secondary |-> secondary]],
     wind |-> [speed |-> speed, direction |-> 270, compass_direction |-> "W",
               unit |-> IF unit = "Feet" THEN "Mph" ELSE "Kph"],
     condition |-> [temperature |-> temp,
                    unit_temperature |-> IF unit = "Feet" THEN "F" ELSE "C"]]

Profiles == {"debug", "release"}

\* abs_max_breaking_height values, in tenths; with max_breaking_height 3.0 ft the
\* value 4k scales to k, and the last one lies above max_breaking_height + buffer
AbsHeights == {4 * k : k \in 0..MaxAbsSteps}

\* a record of the graph families: ratings follow the height
GraphRecord(ts, abs_max, max, unit) ==
    MkForecast(ts, abs_max, max, unit, abs_max % 3, (abs_max \div 4) % 2,
               SomeComponent(abs_max, 9, 85, "E"), NoComponent, 5, 61)

\* one or two records with every combination of heights
GraphPairInputs ==
    {<<GraphRecord(18, a, 30, "Feet")>> : a \in AbsHeights}
    \cup {<<GraphRecord(18, a, 30, "Feet"), GraphRecord(21, b, 30, "Feet")>> :
             a \in AbsHeights, b \in AbsHeights}

\* the legends " 4 ft ", " 3.5 m " and " 13.5 ft "
LegendVariants == {<<30, "Feet">>, <<30, "Meters">>, <<125, "Feet">>}

\* n records at 3-hour spacing, heights cycling
GraphLongInputs ==
    {[i \in 1..n |-> GraphRecord(3 * (i - 1), 4 * ((3 * i) % 11), v[1], v[2])] :
        n \in 1..MaxBins, v \in LegendVariants}

\* max_breaking_height values, in tenths
MaxHeights == {10, 30, 55, 125}

\* up to MaxHeightRecs records of every combination of max_breaking_height, in
\* feet and in meters
GraphMaxInputs ==
    {[i \in 1..Len(m) |-> GraphRecord(18 + 3 * i, 8, m[i], u)] :
        m \in UNION {[1..n -> MaxHeights] : n \in 1..MaxHeightRecs},
        u \in {"Feet", "Meters"}}

\* the cell texts of the day families: <<primary height, has primary, has
\* secondary, wind speed, temperature>>
DayVariants ==
    {<<35, TRUE, FALSE, 5, 61>>, <<105, TRUE, TRUE, 12, 0 - 4>>,
     <<0, FALSE, FALSE, 5, 61>>, <<20, FALSE, TRUE, 100, 101>>}

DayRecord(ts, v) ==
    MkForecast(ts, v[1], v[1], "Feet", 1, 1,
               IF v[2] THEN SomeComponent(v[1], 11, 85, "E") ELSE NoComponent,
               IF v[3] THEN SomeComponent(5, 7, 190, "S") ELSE NoComponent,
               v[4], v[5])

\* n records at 3-hour spacing; the component is present in the first record only
\* when the slice is longer than two
DayLongInputs ==
    {[i \in 1..n |-> DayRecord(3 * (i - 1), IF i = 1 \/ n <= 2 THEN v
                                            ELSE <<v[1], FALSE, FALSE, v[4], v[5]>>)] :
        n \in 1..MaxDayBins, v \in DayVariants}

\* local timestamps of the small inputs: 6pm, 9pm, 10pm of the first day; 12am, 3am,
\* 9pm of the second; 12am of the third
TimeStamps == {18, 21, 22, 24, 27, 45, 48}

\* a record of the small inputs: its fields follow its timestamp
SmallRecord(ts) ==
    MkForecast(ts, 4 * (ts % 11), 30, "Feet", ts % 2, ts % 3,
               IF ts % 4 # 0 THEN SomeComponent(35, 11, 85, "E") ELSE NoComponent,
               IF ts % 5 = 0 THEN SomeComponent(5, 7, 190, "S") ELSE NoComponent,
               5, 61)

\* ordered forecasts of at most MaxRecs records
SmallInputs ==
    LET seqs == UNION {[1..n -> TimeStamps] : n \in 0..MaxRecs}
        ordered == {s \in seqs : \A i \in 1..(Len(s) - 1) : s[i] < s[i + 1]}
    IN {[i \in 1..Len(s) |-> SmallRecord(s[i])] : s \in ordered}

\* titles of every length up to MaxTitle
TitleInputs == {Rep("x", n) : n \in 0..MaxTitle}

\* the heights scale is called with, in tenths: below the range, in it and above it
ScaleHeights == {2 * k - 6 : k \in 0..MaxScaleSteps}

\* pairs of heights, the lower first
ScaleArgs == {a \in ScaleHeights \X ScaleHeights : a[1] < a[2]}

\* Graphs with the ranges 0..4 ft, 0..3.5 m, 0..13.5 ft and 0..0.5 m
ScaleGraphs ==
    {GraphNew(<<GraphRecord(0, 0, v[1], v[2])>>) :
        v \in LegendVariants \cup {<<0, "Meters">>}}

\* a record of every pair of ratings
ColorArgs ==
    {<<MkForecast(0, 20, 30, "Feet", solid, faded, NoComponent, NoComponent, 5, 61)>> :
        solid \in 0..MaxRating, faded \in 0..MaxRating}

\* the styles of the spans handed to a renderer: every foreground, and a background
\* and bold with and without a foreground
StyleInputs ==
    {[StyleDefault EXCEPT !.fg = fg] : fg \in {"None", "Red", "Green", "Blue"}}
    \cup {[fg |-> "None", bg |-> "Red", bold |-> TRUE],
          [fg |-> "Green", bg |-> "Blue", bold |-> TRUE]}

\* spans of every style and content: a line break, an empty and a two-char text
SpanInputs ==
    {[newline |-> c[1], text |-> c[2], style |-> st] :
        c \in {<<TRUE, <<>>>>, <<FALSE, <<>>>>, <<FALSE, <<"a", "b">>>>},
        st \in StyleInputs}

\* Views of at most MaxSpans spans
ViewInputs == UNION {[1..n -> SpanInputs] : n \in 0..MaxSpans}

\* local timestamps of the forecasts handed to ui::render: 9pm of the first day
\* and 12am of the second
UiTimeStamps == {21, 24}

\* forecasts of at most MaxUiRecs records in any order, repeats included
UiForecasts ==
    {[i \in 1..Len(s) |-> SmallRecord(s[i])] :
        s \in UNION {[1..n -> UiTimeStamps] : n \in 1..MaxUiRecs}}

\* a call of ui::render: its type argument and its argument
UiCalls == [renderer : {"Terminal", "Browser"}, forecast : UiForecasts]

\* the constructor calls of a span
SpanCtorCalls ==
    {[op |-> "new", text |-> <<"h", "i">>], [op |-> "new", text |-> <<>>],
     [op |-> "newline", text |-> <<>>]}

\* the Style setter calls
SetterCalls ==
    {[op |-> o, color |-> c] : o \in {"fg", "bg"}, c \in {"Red", "Green", "Blue"}}
    \cup {[op |-> "bold", color |-> "None"]}

\* a constructor call followed by a chain of at most MaxSetters setter calls
SpanApiArgs ==
    {<<ctor>> \o chain :
        ctor \in SpanCtorCalls,
        chain \in UNION {[1..n -> SetterCalls] : n \in 0..MaxSetters}}

\* enum CompassDirection, in declaration order: clockwise from N
CompassPoints ==
    <<"N", "NNE", "NE", "ENE", "E", "ESE", "SE", "SSE",
      "S", "SSW", "SW", "WSW", "W", "WNW", "NW", "NNW">>

-----------------------------------------------------------------------------
(* The state machine *)

NoGraph == [forecast |-> <<>>, min_swell_height |-> 0, max_swell_height |-> 0]

NoDay == [forecast |-> <<>>, bin_width |-> 0, right_margin |-> 0]

\* the state before the operation `e` runs on `fcs` with title `t`
Start(e, fcs, t) ==
    /\ entry = e
    /\ forecast = fcs
    /\ title_in = t
    /\ pc = (IF e = "Border" THEN "border_top" ELSE IF e = "Day" THEN "day_new"
             ELSE "graph_new")
    /\ graph = NoGraph
    /\ cur = (IF e = "Day" THEN fcs ELSE <<>>)
    /\ day = NoDay
    /\ lines = <<>>
    /\ header = <<>>
    /\ days = <<>>
    /\ sections = <<>>
    /\ spans = <<>>
    /\ panic = "none"
    /\ args = <<>>
    /\ ret = <<>>
    /\ anchors = <<>>
    /\ spot_json_map = <<>>
    /\ writer = <<>>
    /\ requests = <<>>

\* a panic unwinds the operation: its locals are dropped
Panic(reason) ==
    /\ pc' = "panicked"
    /\ panic' = reason
    /\ spans' = <<>>
    /\ lines' = <<>>
    /\ UNCHANGED <<anchors, spot_json_map, writer, requests,
                   args, ret, entry, build, forecast, title_in, graph, cur, day, header, days,
                   sections>>

\* Graph::new
GraphNewStep ==
    /\ pc = "graph_new"
    /\ IF forecast = <<>>
       THEN Panic("assert_not_empty")
       ELSE /\ graph' = GraphNew(forecast)
            /\ pc' = "graph_draw_inner"
            /\ UNCHANGED <<anchors, spot_json_map, writer, requests,
                           args, ret, entry, build, forecast, title_in, cur, day, lines, header,
                           days, sections, spans, panic>>

\* Graph::draw_inner
GraphDrawInnerStep ==
    /\ pc = "graph_draw_inner"
    /\ IF GraphDrawPanic(graph, build) # "none"
       THEN Panic(GraphDrawPanic(graph, build))
       ELSE /\ lines' = GraphDrawInner(graph)
            /\ pc' = "graph_border"
            /\ UNCHANGED <<anchors, spot_json_map, writer, requests,
                           args, ret, entry, build, forecast, title_in, graph, cur, day, header,
                           days, sections, spans, panic>>

\* Border::border of the Graph, and spans.extend
GraphBorderStep ==
    /\ pc = "graph_border"
    /\ header' = BorderTop(GraphTitle(graph))
    /\ spans' = spans \o Border(GraphTitle(graph), lines)
    /\ pc' = (IF entry = "View" THEN "split" ELSE "done")
    /\ UNCHANGED <<anchors, spot_json_map, writer, requests,
                   args, ret, entry, build, forecast, title_in, graph, cur, day, lines, days,
                   sections, panic>>

\* forecast.split_inclusive(..)
SplitStep ==
    /\ pc = "split"
    /\ days' = SplitInclusive(forecast)
    /\ pc' = "next_day"
    /\ UNCHANGED <<anchors, spot_json_map, writer, requests,
                   args, ret, entry, build, forecast, title_in, graph, cur, day, lines, header,
                   sections, spans, panic>>

\* for fc in days: the next slice, and the line break pushed before its Day
NextDayStep ==
    /\ pc = "next_day"
    /\ IF days = <<>>
       THEN /\ pc' = "done"
            /\ UNCHANGED <<cur, days, spans>>
       ELSE /\ cur' = Head(days)
            /\ days' = Tail(days)
            /\ IF Head(days) # <<>>
               THEN spans' = Append(spans, SpanNewline) /\ pc' = "day_new"
               ELSE UNCHANGED spans /\ pc' = "next_day"
    /\ UNCHANGED <<anchors, spot_json_map, writer, requests,
                   args, ret, entry, build, forecast, title_in, graph, day, lines, header,
                   sections, panic>>

\* Day::new
DayNewStep ==
    /\ pc = "day_new"
    /\ IF DayNewPanic(cur, build) # "none"
       THEN Panic(DayNewPanic(cur, build))
       ELSE /\ day' = DayNew(cur)
            /\ pc' = "day_draw_inner"
            /\ UNCHANGED <<anchors, spot_json_map, writer, requests,
                           args, ret, entry, build, forecast, title_in, graph, cur, lines, header,
                           days, sections, spans, panic>>

\* Day::draw_inner
DayDrawInnerStep ==
    /\ pc = "day_draw_inner"
    /\ lines' = DayDrawInner(day)
    /\ pc' = "day_border"
    /\ UNCHANGED <<anchors, spot_json_map, writer, requests,
                   args, ret, entry, build, forecast, title_in, graph, cur, day, header, days,
                   sections, spans, panic>>

\* Border::border of the Day, and spans.extend
DayBorderStep ==
    /\ pc = "day_border"
    /\ header' = BorderTop(DayTitle(day))
    /\ spans' = spans \o Border(DayTitle(day), lines)
    /\ sections' = Append(sections, cur)
    /\ pc' = (IF entry = "View" THEN "next_day" ELSE "done")
    /\ UNCHANGED <<anchors, spot_json_map, writer, requests,
                   args, ret, entry, build, forecast, title_in, graph, cur, day, lines, days,
                   panic>>

\* Border::border_top of a section with the title title_in
BorderTopStep ==
    /\ pc = "border_top"
    /\ header' = BorderTop(title_in)
    /\ pc' = "done"
    /\ UNCHANGED <<anchors, spot_json_map, writer, requests,
                   args, ret, entry, build, forecast, title_in, graph, cur, day, lines, days,
                   sections, spans, panic>>

\* View::from, Graph::new(..).draw() and Day::new(..).draw() on small forecasts
Init ==
    /\ build \in Profiles
    /\ \E e \in {"View", "Graph", "Day"}, fcs \in SmallInputs : Start(e, fcs, <<>>)

Next ==
    \/ GraphNewStep
    \/ GraphDrawInnerStep
    \/ GraphBorderStep
    \/ SplitStep
    \/ NextDayStep
    \/ DayNewStep
    \/ DayDrawInnerStep
    \/ DayBorderStep

Spec == Init /\ [][Next]_vars

\* Graph::new(..).draw() on forecasts of every height pair and of every length
InitGraph ==
    /\ build \in Profiles
    /\ \E fcs \in {<<>>} \cup GraphPairInputs \cup GraphLongInputs \cup GraphMaxInputs :
          Start("Graph", fcs, <<>>)

NextGraph ==
    \/ GraphNewStep
    \/ GraphDrawInnerStep
    \/ GraphBorderStep

SpecGraph == InitGraph /\ [][NextGraph]_vars

\* Day::new(..).draw() on slices of every length
InitDay ==
    /\ build \in Profiles
    /\ \E fcs \in {<<>>} \cup DayLongInputs : Start("Day", fcs, <<>>)

NextDay ==
    \/ DayNewStep
    \/ DayDrawInnerStep
    \/ DayBorderStep

SpecDay == InitDay /\ [][NextDay]_vars

\* border_top on titles of every length
InitBorder ==
    /\ build \in Profiles
    /\ \E t \in TitleInputs : Start("Border", <<>>, t)

NextBorder == BorderTopStep

SpecBorder == InitBorder /\ [][NextBorder]_vars

\* the state before the function `e` is called on each of `a` in turn
CallStart(e, g, a) ==
    /\ entry = e
    /\ forecast = <<>>
    /\ title_in = <<>>
    /\ pc = "call"
    /\ graph = g
    /\ cur = <<>>
    /\ day = NoDay
    /\ lines = <<>>
    /\ header = <<>>
    /\ days = <<>>
    /\ sections = <<>>
    /\ spans = <<>>
    /\ panic = "none"
    /\ args = a
    /\ ret = <<>>
    /\ anchors = <<>>
    /\ spot_json_map = <<>>
    /\ writer = <<>>
    /\ requests = <<>>

\* the position after one more call has returned
AfterCall == IF Len(ret) + 1 = Len(args) THEN "done" ELSE "call"

\* Graph::scale on the next height
ScaleStep ==
    /\ entry = "scale"
    /\ pc = "call"
    /\ ret' = Append(ret, Scale(graph, args[Len(ret) + 1]))
    /\ pc' = AfterCall
    /\ UNCHANGED <<anchors, spot_json_map, writer, requests,
                   args, entry, build, forecast, title_in, graph, cur, day, lines, header,
                   days, sections, spans, panic>>

\* Graph::color on the next record
ColorStep ==
    /\ entry = "color"
    /\ pc = "call"
    /\ ret' = Append(ret, Color(args[Len(ret) + 1]))
    /\ pc' = AfterCall
    /\ UNCHANGED <<anchors, spot_json_map, writer, requests,
                   args, entry, build, forecast, title_in, graph, cur, day, lines, header,
                   days, sections, spans, panic>>

\* compass_to_arrow on the next compass point
CompassStep ==
    /\ entry = "compass_to_arrow"
    /\ pc = "call"
    /\ ret' = Append(ret, compass_to_arrow(args[Len(ret) + 1]))
    /\ pc' = AfterCall
    /\ UNCHANGED <<anchors, spot_json_map, writer, requests,
                   args, entry, build, forecast, title_in, graph, cur, day, lines, header,
                   days, sections, spans, panic>>

\* scale on every pair of heights, color on every pair of ratings, compass_to_arrow
\* on every compass point
InitFn ==
    /\ build \in Profiles
    /\ \/ \E g \in ScaleGraphs, a \in ScaleArgs : CallStart("scale", g, a)
       \/ \E a \in ColorArgs : CallStart("color", NoGraph, a)
       \/ CallStart("compass_to_arrow", NoGraph, CompassPoints)

NextFn ==
    \/ ScaleStep
    \/ ColorStep
    \/ CompassStep

SpecFn == InitFn /\ [][NextFn]_vars

\* the state before renderer `e` is given the View `view_spans`
RenderStart(e, view_spans) ==
    /\ entry = e
    /\ forecast = <<>>
    /\ title_in = <<>>
    /\ pc = "render"
    /\ graph = NoGraph
    /\ cur = <<>>
    /\ day = NoDay
    /\ lines = <<>>
    /\ header = <<>>
    /\ days = <<>>
    /\ sections = <<>>
    /\ spans = view_spans
    /\ panic = "none"
    /\ args = <<>>
    /\ ret = <<>>
    /\ anchors = <<>>
    /\ spot_json_map = <<>>
    /\ writer = <<>>
    /\ requests = <<>>

\* Terminal::render
TerminalRenderStep ==
    /\ entry = "Terminal"
    /\ pc = "render"
    /\ ret' = <<TerminalRender(spans)>>
    /\ pc' = "done"
    /\ UNCHANGED <<anchors, spot_json_map, writer, requests,
                   args, entry, build, forecast, title_in, graph, cur, day, lines, header,
                   days, sections, spans, panic>>

\* Browser::render
BrowserRenderStep ==
    /\ entry = "Browser"
    /\ pc = "render"
    /\ ret' = <<BrowserRender(spans)>>
    /\ pc' = "done"
    /\ UNCHANGED <<anchors, spot_json_map, writer, requests,
                   args, entry, build, forecast, title_in, graph, cur, day, lines, header,
                   days, sections, spans, panic>>

\* Terminal::render and Browser::render on Views of every span kind
InitRender ==
    /\ build \in Profiles
    /\ \E e \in {"Terminal", "Browser"}, v \in ViewInputs : RenderStart(e, v)

NextRender ==
    \/ TerminalRenderStep
    \/ BrowserRenderStep

SpecRender == InitRender /\ [][NextRender]_vars

\* Span::new or Span::newline
SpanCtorStep ==
    /\ entry = "Span"
    /\ pc = "call"
    /\ ret = <<>>
    /\ anchors = <<>>
    /\ spot_json_map = <<>>
    /\ writer = <<>>
    /\ requests = <<>>
    /\ ret' = <<IF args[1].op = "new" THEN SpanNew(args[1].text) ELSE SpanNewline>>
    /\ pc' = AfterCall
    /\ UNCHANGED <<anchors, spot_json_map, writer, requests,
                   args, entry, build, forecast, title_in, graph, cur, day, lines, header,
                   days, sections, spans, panic>>

\* the next setter of the chain span.style().fg(..).bg(..).bold(): ret holds the
\* span after each call
StyleSetterStep ==
    /\ entry = "Span"
    /\ pc = "call"
    /\ ret # <<>>
    /\ LET span == ret[Len(ret)]
           call == args[Len(ret) + 1]
       IN ret' = Append(ret, IF call.op = "fg" THEN StyleFg(span, call.color)
                             ELSE IF call.op = "bg" THEN StyleBg(span, call.color)
                             ELSE StyleBold(span))
    /\ pc' = AfterCall
    /\ UNCHANGED <<anchors, spot_json_map, writer, requests,
                   args, entry, build, forecast, title_in, graph, cur, day, lines, header,
                   days, sections, spans, panic>>

\* a span constructed and styled by every chain of setters
InitSpan ==
    /\ build \in Profiles
    /\ \E a \in SpanApiArgs : CallStart("Span", NoGraph, a)

NextSpan ==
    \/ SpanCtorStep
    \/ StyleSetterStep

SpecSpan == InitSpan /\ [][NextSpan]_vars

\* the state at the entry of ui::render for the call `c`: View::from starts with
\* fresh locals
UiEnter(c) ==
    /\ entry' = "View"
    /\ forecast' = c.forecast
    /\ pc' = "graph_new"
    /\ graph' = NoGraph
    /\ cur' = <<>>
    /\ day' = NoDay
    /\ lines' = <<>>
    /\ header' = <<>>
    /\ days' = <<>>
    /\ sections' = <<>>
    /\ spans' = <<>>

\* R::render(view) at the end of ui::render: the call returns its output
UiRenderStep ==
    /\ entry = "View"
    /\ pc = "done"
    /\ Len(ret) < Len(args)
    /\ ret' = Append(ret, [spans |-> spans,
                           output |-> IF args[Len(ret) + 1].renderer = "Terminal"
                                      THEN TerminalRender(spans)
                                      ELSE BrowserRender(spans)])
    /\ pc' = "returned"
    /\ UNCHANGED <<anchors, spot_json_map, writer, requests,
                   args, entry, build, forecast, title_in, graph, cur, day, lines, header,
                   days, sections, spans, panic>>

\* the next call of ui::render
UiNextCallStep ==
    /\ pc = "returned"
    /\ Len(ret) < Len(args)
    /\ UiEnter(args[Len(ret) + 1])
    /\ UNCHANGED <<anchors, spot_json_map, writer, requests,
                   args, ret, build, title_in, panic>>

\* two calls of ui::render, one after the other, on every pair of forecasts and
\* renderers
InitUi ==
    /\ build \in Profiles
    /\ \E a \in UiCalls \X UiCalls :
          /\ entry = "View"
          /\ forecast = a[1].forecast
          /\ title_in = <<>>
          /\ pc = "graph_new"
          /\ graph = NoGraph
          /\ cur = <<>>
          /\ day = NoDay
          /\ lines = <<>>
          /\ header = <<>>
          /\ days = <<>>
          /\ sections = <<>>
          /\ spans = <<>>
          /\ panic = "none"
          /\ args = a
          /\ ret = <<>>
          /\ anchors = <<>>
          /\ spot_json_map = <<>>
          /\ writer = <<>>
          /\ requests = <<>>

NextUi ==
    \/ GraphNewStep
    \/ GraphDrawInnerStep
    \/ GraphBorderStep
    \/ SplitStep
    \/ NextDayStep
    \/ DayNewStep
    \/ DayDrawInnerStep
    \/ DayBorderStep
    \/ UiRenderStep
    \/ UiNextCallStep

SpecUi == InitUi /\ [][NextUi]_vars

-----------------------------------------------------------------------------
(* Properties *)

\* Graph::draw_inner has returned: `lines` holds its result
GraphDrawn == entry = "Graph" /\ pc \in {"graph_border", "done"}

\* Graph::draw_inner has returned or panicked
GraphDrawEnded == GraphDrawn \/ (entry = "Graph" /\ pc = "panicked" /\ forecast # <<>>)

\* Day::draw_inner has returned: `lines` holds its result
DayDrawn == entry = "Day" /\ pc \in {"day_border", "done"}

\* the panics of an unsigned subtraction of the width arithmetic
WidthPanics == {"subtract_overflow", "alloc_failure"}

\* the text of graph bin x (from 1) at row y (from 0)
BinCell(y, x) == lines[y + 1][2 * x].text

\* the glyph of the boundary between graph bins x and x + 1 at row y
BoundaryCell(y, x) == lines[y + 1][2 * x + 1].text[1]

Rows == 0..(SWELL_GRAPH_HEIGHT - 1)

C2_DayLineWidth ==
    DayDrawn => \A r \in 1..Len(lines) : LineWidth(lines[r]) = INTERIOR_VIEWPOINT_WIDTH

\* the three text lines of the header border_top returned
HeaderLines == <<header[1].text, header[3].text, header[5].text>>

EmptyConstructed == forecast = <<>> /\ pc \notin {"graph_new", "day_new"}

\* C4 (as claimed): constructing a Graph or a Day from an empty slice, and so
\* assembling a View from an empty forecast, yields an EmptyInput error value and
\* never panics.
C4_ErrorValue ==
    EmptyConstructed => (pc = "error" /\ panic = "none")

\* C4 (amended): constructing a Graph or a Day from an empty slice, and so
\* assembling a View from an empty forecast, panics on the constructor's assert; no
\* line, section or span is produced; and the assert fails for no other input.
C4_EmptyPanics ==
    /\ EmptyConstructed =>
          /\ pc = "panicked"
          /\ panic = "assert_not_empty"
          /\ spans = <<>> /\ lines = <<>> /\ sections = <<>>
    /\ panic = "assert_not_empty" => (forecast = <<>> /\ cur = <<>>)

\* C4 witness: Day::new has panicked on an empty slice
C4_Witness == entry = "Day" /\ forecast = <<>> /\ pc = "panicked"

\* the spans of the Day sections of the slices ss, a line break before each
RECURSIVE DaySpans(_)
DaySpans(ss) ==
    IF ss = <<>> THEN <<>>
    ELSE <<SpanNewline>>
         \o Border(DateStr(Date(Head(ss)[1])), DayDrawInner(DayNew(Head(ss))))
         \o DaySpans(Tail(ss))

\* the View has been assembled
ViewDone == entry = "View" /\ pc = "done"

\* C5: the View is the Graph of the whole forecast, once, then for every partition
\* a line break and the partition's Day; the partitions are non-empty, concatenate
\* to the forecast, hold an hour-21 record only as their last record, and number
\* the hour-21 records plus one if the last record's hour is not 21.
C5_Partition ==
    ViewDone =>
        LET n == Len(forecast)
            nines == {i \in 1..n : Hour(forecast[i]) = 21}
        IN /\ Concat(sections) = forecast
           /\ \A k \in 1..Len(sections) :
                 /\ sections[k] # <<>>
                 /\ \A i \in 1..(Len(sections[k]) - 1) : Hour(sections[k][i]) # 21
                 /\ k < Len(sections) => Hour(sections[k][Len(sections[k])]) = 21
           /\ Len(sections)
                 = Cardinality(nines) + (IF Hour(forecast[n]) # 21 THEN 1 ELSE 0)
           /\ spans = Border(GraphTitle(graph), GraphDrawInner(graph))
                          \o DaySpans(sections)

\* C5 witness: a View of three sections, cut after two hour-21 records
C5_Witness ==
    /\ ViewDone
    /\ Len(sections) = 3
    /\ Len(sections[1]) = 2

\* the dates of the records of a slice
Dates(fcs) == {Date(fcs[i]) : i \in 1..Len(fcs)}

\* C6 (as claimed): for every ordered non-empty forecast the View has one Day
\* section per calendar day: the records of a section share one date, and every
\* date of the forecast is drawn by exactly one section.
C6_OneDayPerDate ==
    ViewDone =>
        /\ \A k \in 1..Len(sections) : Cardinality(Dates(sections[k])) = 1
        /\ \A d \in Dates(forecast) :
              Cardinality({k \in 1..Len(sections) : d \in Dates(sections[k])}) = 1

\* C7 (as claimed): the bin cell at row y is a horizontal rule when y equals the
\* bin's glyph row, dotted when y is less than it and blank when y is greater.
C7_FillAsClaimed ==
    (GraphDrawn /\ GraphBinWidth(graph) > 0) =>
        \A x \in 1..Len(forecast), y \in Rows :
            LET height == GlyphRow(graph, x)
                width == GraphBinWidth(graph)
            IN BinCell(y, x) = (IF y = height THEN Rep(LINE_HORIZONTAL, width)
                                ELSE IF y < height THEN Rep(".", width)
                                ELSE Rep(" ", width))

\* C7 (amended): the bin cell at row y is a horizontal rule when y equals the bin's
\* glyph row, dotted when y is greater than it (the row lies below the wave line,
\* row 0 being the top) and blank when y is less than it.
C7_Fill ==
    GraphDrawn =>
        \A x \in 1..Len(forecast), y \in Rows :
            LET height == GlyphRow(graph, x)
                width == GraphBinWidth(graph)
            IN BinCell(y, x) = (IF y = height THEN Rep(LINE_HORIZONTAL, width)
                                ELSE IF y > height THEN Rep(".", width)
                                ELSE Rep(" ", width))

\* C7 witness: a drawn bin with blank rows above its rule and dotted rows below
C7_Witness ==
    /\ GraphDrawn
    /\ Len(forecast) = 1
    /\ GlyphRow(graph, 1) = 4
    /\ BinCell(3, 1)[1] = " "
    /\ BinCell(4, 1)[1] = LINE_HORIZONTAL
    /\ BinCell(5, 1)[1] = "."

Orderings == {"Less", "Equal", "Greater"}

\* the rule list of the boundary fill: the orderings of (height_x, height_{x-1}),
\* (height_x, y) and (height_{x-1}, y) a rule applies to, and its glyph
BoundaryRules ==
    <<[a |-> Orderings, b |-> {"Greater"}, c |-> {"Greater"}, glyph |-> " "],
      [a |-> Orderings, b |-> {"Less"}, c |-> {"Less"}, glyph |-> "."],
      [a |-> Orderings, b |-> {"Greater"}, c |-> {"Less"}, glyph |-> LINE_VERT],
      [a |-> Orderings, b |-> {"Less"}, c |-> {"Greater"}, glyph |-> LINE_VERT],
      [a |-> {"Equal"}, b |-> Orderings, c |-> Orderings, glyph |-> LINE_HORIZONTAL],
      [a |-> {"Greater"}, b |-> {"Equal"}, c |-> Orderings, glyph |-> CORNER_BTM_LEFT],
      [a |-> {"Less"}, b |-> {"Equal"}, c |-> Orderings, glyph |-> CORNER_TOP_LEFT],
      [a |-> {"Greater"}, b |-> Orderings, c |-> {"Equal"}, glyph |-> CORNER_TOP_RIGHT],
      [a |-> {"Less"}, b |-> Orderings, c |-> {"Equal"}, glyph |-> CORNER_BTM_RIGHT]>>

\* the rules that apply to an ordering triple
RulesFor(t) ==
    {i \in 1..Len(BoundaryRules) :
        /\ t[1] \in BoundaryRules[i].a
        /\ t[2] \in BoundaryRules[i].b
        /\ t[3] \in BoundaryRules[i].c}

\* the glyph of the first rule that applies
RuleGlyph(t) == BoundaryRules[MinOf(RulesFor(t))].glyph

\* C8: every boundary glyph drawn is the one the rule list gives for the triple
\* (cmp(h_cur, h_prev), cmp(h_cur, y), cmp(h_prev, y)), first applicable rule first,
\* and the list is total: a rule applies to each of the 27 ordering triples.
C8_BoundaryTable ==
    /\ \A t \in Orderings \X Orderings \X Orderings : RulesFor(t) # {}
    /\ GraphDrawn =>
          \A x \in 1..(Len(forecast) - 1), y \in Rows :
              LET h_prev == GlyphRow(graph, x)
                  h_cur == GlyphRow(graph, x + 1)
              IN BoundaryCell(y, x)
                     = RuleGlyph(<<Cmp(h_cur, h_prev), Cmp(h_cur, y), Cmp(h_prev, y)>>)

\* C8 witness: a rising and a falling corner have been drawn between two bins
C8_Witness ==
    /\ GraphDrawn
    /\ Len(forecast) = 2
    /\ \E y \in Rows : BoundaryCell(y, 1) = CORNER_BTM_LEFT
    /\ \E y \in Rows : BoundaryCell(y, 1) = CORNER_TOP_RIGHT

\* the mirror image of a glyph, left and right exchanged
Mirror(glyph) ==
    IF glyph = CORNER_TOP_LEFT THEN CORNER_TOP_RIGHT
    ELSE IF glyph = CORNER_TOP_RIGHT THEN CORNER_TOP_LEFT
    ELSE IF glyph = CORNER_BTM_LEFT THEN CORNER_BTM_RIGHT
    ELSE IF glyph = CORNER_BTM_RIGHT THEN CORNER_BTM_LEFT
    ELSE glyph

\* C9: every boundary glyph drawn between a left bin and a right bin is the mirror
\* image of the glyph chosen when the two bins are exchanged.
C9_SwapSymmetry ==
    GraphDrawn =>
        \A x \in 1..(Len(forecast) - 1), y \in Rows :
            LET left == GlyphRow(graph, x)
                right == GlyphRow(graph, x + 1)
            IN Mirror(BoundaryCell(y, x)) = BoundaryGlyph(left, right, y)

\* C9 witness: a corner has been drawn between two bins of different heights
C9_Witness ==
    /\ GraphDrawn
    /\ Len(forecast) = 2
    /\ GlyphRow(graph, 1) = 2
    /\ GlyphRow(graph, 2) = 5
    /\ BoundaryCell(2, 1) = CORNER_TOP_RIGHT
    /\ BoundaryCell(5, 1) = CORNER_BTM_LEFT

\* C10 (as claimed): between adjacent bins with glyph rows a (left) and b (right) in
\* 0..SWELL_GRAPH_HEIGHT the boundary is blank above both rows, dotted below both,
\* a vertical bar strictly between them, joins the left bin's rule at row a and
\* the right bin's rule at row b, and no vertical bar is the end of its run.
C10_StepLine ==
    (GraphDrawn /\ GraphBinWidth(graph) > 0) =>
        \A x \in 1..(Len(forecast) - 1) :
            LET a == GlyphRow(graph, x)
                b == GlyphRow(graph, x + 1)
                lo == IF a < b THEN a ELSE b
                hi == IF a < b THEN b ELSE a
            IN (a <= SWELL_GRAPH_HEIGHT /\ b <= SWELL_GRAPH_HEIGHT) =>
                 \A y \in Rows :
                    /\ y < lo => BoundaryCell(y, x) = " "
                    /\ y > hi => BoundaryCell(y, x) = "."
                    /\ (lo < y /\ y < hi) => BoundaryCell(y, x) = LINE_VERT
                    /\ (a = b /\ y = a) => BoundaryCell(y, x) = LINE_HORIZONTAL
                    /\ (a # b /\ y = a) =>
                          /\ BoundaryCell(y, x)
                                = (IF a < b THEN CORNER_TOP_RIGHT ELSE CORNER_BTM_RIGHT)
                          /\ BinCell(y, x)[1] = LINE_HORIZONTAL
                    /\ (a # b /\ y = b) =>
                          /\ BoundaryCell(y, x)
                                = (IF a < b THEN CORNER_BTM_LEFT ELSE CORNER_TOP_LEFT)
                          /\ BinCell(y, x + 1)[1] = LINE_HORIZONTAL
                    /\ BoundaryCell(y, x) = LINE_VERT =>
                          /\ y - 1 \in Rows
                          /\ BoundaryCell(y - 1, x)
                                \in {LINE_VERT, CORNER_TOP_LEFT, CORNER_TOP_RIGHT}
                          /\ y + 1 \in Rows
                          /\ BoundaryCell(y + 1, x)
                                \in {LINE_VERT, CORNER_BTM_LEFT, CORNER_BTM_RIGHT}

\* a function has returned from the last of its calls
Called(e) == entry = e /\ pc = "done"

\* C11: for a fixed Graph and any two heights h1 < h2, below, in or above the
\* Graph's range, scale(h1) <= scale(h2).
C11_ScaleMonotonic ==
    Called("scale") =>
        \A i \in 1..Len(args), j \in 1..Len(args) :
            args[i] < args[j] => ret[i] <= ret[j]

\* C11 witness: scale has been called on a height below the range and on a height
\* in it, and returned the bottom row and a higher one
C11_Witness ==
    /\ Called("scale")
    /\ args[1] < graph.min_swell_height
    /\ args[2] > graph.min_swell_height
    /\ args[2] < graph.max_swell_height
    /\ ret[1] = 0
    /\ ret[2] = 7

Colors == {"Red", "Green", "Blue"}

\* C12: the color of a record is Red exactly when solid_rating is 0, Green exactly
\* when solid_rating is not 0 and faded_rating is 0, Blue exactly when neither
\* rating is 0; every pair of ratings has a color.
C12_ColorTable ==
    Called("color") =>
        LET fc == args[1]
        IN /\ ret[1] \in Colors
           /\ ret[1] = "Red" <=> fc.solid_rating = 0
           /\ ret[1] = "Green" <=> (fc.solid_rating # 0 /\ fc.faded_rating = 0)
           /\ ret[1] = "Blue" <=> (fc.solid_rating # 0 /\ fc.faded_rating # 0)

\* C12 witness: a record with both ratings 0 has been given the color Red
C12_Witness ==
    /\ Called("color")
    /\ args[1].solid_rating = 0
    /\ args[1].faded_rating = 0
    /\ ret[1] = "Red"

Arrows ==
    {"DOWN", "DOWN_LEFT", "LEFT", "UP_LEFT", "UP", "UP_RIGHT", "RIGHT", "DOWN_RIGHT"}

\* the arrow pointing the other way
OppositeArrow(arrow) ==
    IF arrow = "DOWN" THEN "UP"
    ELSE IF arrow = "UP" THEN "DOWN"
    ELSE IF arrow = "LEFT" THEN "RIGHT"
    ELSE IF arrow = "RIGHT" THEN "LEFT"
    ELSE IF arrow = "DOWN_LEFT" THEN "UP_RIGHT"
    ELSE IF arrow = "UP_RIGHT" THEN "DOWN_LEFT"
    ELSE IF arrow = "UP_LEFT" THEN "DOWN_RIGHT"
    ELSE "UP_LEFT"

\* the index of the compass point 8 steps around the 16-point compass
OppositePoint(i) == ((i + 7) % 16) + 1

\* C18: compass_to_arrow maps the 16 compass points onto the 8 arrows; N maps to
\* the down arrow, NNE, NE and ENE to down-left, E to the left arrow; each cardinal
\* point has an arrow of its own and the three points after it share the next
\* one; the arrow of the opposite point is the opposite arrow.
C18_Compass ==
    Called("compass_to_arrow") =>
        /\ Len(ret) = 16
        /\ {ret[i] : i \in 1..16} = Arrows
        /\ ret[1] = "DOWN"
        /\ ret[2] = "DOWN_LEFT" /\ ret[3] = "DOWN_LEFT" /\ ret[4] = "DOWN_LEFT"
        /\ ret[5] = "LEFT"
        /\ \A k \in 0..3 :
              /\ ret[4 * k + 2] = ret[4 * k + 3]
              /\ ret[4 * k + 3] = ret[4 * k + 4]
              /\ ret[4 * k + 1] # ret[4 * k + 2]
              /\ ret[4 * k + 4] # ret[((4 * k + 4) % 16) + 1]
        /\ \A i \in 1..16 : ret[OppositePoint(i)] = OppositeArrow(ret[i])

\* C18 witness: every compass point has been mapped, S onto the up arrow
C18_Witness ==
    /\ Called("compass_to_arrow")
    /\ args[9] = "S"
    /\ ret[9] = "UP"
    /\ ret[8] = "UP_LEFT"

\* C13: in every row of the Graph the bin cell of column x has the color of record
\* x as foreground, the boundary cell between bins x and x + 1 has the color of
\* record x + 1 (the bin on its right), and the legend span and the right-margin
\* span have no foreground; no span has a background or is bold.
C13_CellColors ==
    GraphDrawn =>
        \A r \in 1..Len(lines) :
            LET n == Len(forecast)
            IN /\ \A x \in 1..n : lines[r][2 * x].style.fg = Color(forecast[x])
               /\ \A x \in 1..(n - 1) :
                     lines[r][2 * x + 1].style.fg = Color(forecast[x + 1])
               /\ lines[r][1].style.fg = "None"
               /\ lines[r][2 * n + 1].style.fg = "None"
               /\ \A i \in 1..Len(lines[r]) :
                     lines[r][i].style.bg = "None" /\ ~lines[r][i].style.bold

\* C13 witness: a Red bin left of a Green bin, the boundary between them Green
C13_Witness ==
    /\ GraphDrawn
    /\ Len(forecast) = 2
    /\ forecast[1].solid_rating = 0
    /\ forecast[2].solid_rating # 0 /\ forecast[2].faded_rating = 0
    /\ lines[1][2].style.fg = "Red"
    /\ lines[1][3].style.fg = "Green"
    /\ lines[1][4].style.fg = "Green"

\* Graph::new has returned
GraphConstructed == entry = "Graph" /\ pc \in {"graph_draw_inner", "graph_border", "done"}

\* C14: Graph::new sets min_swell_height to 0 and max_swell_height to the maximum
\* of max_breaking_height over all records plus 1.0 (feet) or 0.5 (meters); the
\* legend of the drawn Graph shows max_swell_height and the unit in row 0 and
\* min_swell_height and the unit in the last row; a single record of 3.0 ft with
\* solid_rating 0 gives one Red bin and the labels "4 ft" and "0 ft".
C14_Range ==
    /\ GraphConstructed =>
          LET n == Len(forecast)
              tallest == CHOOSE i \in 1..n :
                             \A j \in 1..n : forecast[j].swell.max_breaking_height
                                                 <= forecast[i].swell.max_breaking_height
              buffer == IF forecast[1].swell.unit = "Feet" THEN 10 ELSE 5
          IN /\ graph.min_swell_height = 0
             /\ graph.max_swell_height
                   = forecast[tallest].swell.max_breaking_height + buffer
    /\ GraphDrawn =>
          LET unit == UnitLengthStr(forecast[1].swell.unit)
          IN /\ Trim(lines[1][1].text)
                   = F32Str(graph.max_swell_height) \o <<" ">> \o unit
             /\ Trim(lines[SWELL_GRAPH_HEIGHT][1].text)
                   = F32Str(graph.min_swell_height) \o <<" ">> \o unit
    /\ (/\ GraphDrawn
        /\ Len(forecast) = 1
        /\ forecast[1].swell.max_breaking_height = 30
        /\ forecast[1].swell.unit = "Feet"
        /\ forecast[1].solid_rating = 0) =>
          /\ Len(lines[1]) = 3
          /\ \A r \in 1..SWELL_GRAPH_HEIGHT : lines[r][2].style.fg = "Red"
          /\ Trim(lines[1][1].text) = <<"4", " ", "f", "t">>
          /\ Trim(lines[SWELL_GRAPH_HEIGHT][1].text) = <<"0", " ", "f", "t">>

\* C14 witness: the Graph of a single record of 3.0 ft with solid_rating 0
C14_Witness ==
    /\ GraphDrawn
    /\ Len(forecast) = 1
    /\ forecast[1].swell.max_breaking_height = 30
    /\ forecast[1].swell.unit = "Feet"
    /\ forecast[1].solid_rating = 0
    /\ Flatten(<<lines[1][1]>>) = <<" ", "4", " ", "f", "t", " ">>

\* C15: the legend column of the Graph has SWELL_GRAPH_HEIGHT spans of one width;
\* the first is the max-height label, the last is the min-height label, the spans
\* between them are blank; the two labels are equally long, so the assertion of
\* legend_column never fails.
C15_Legend ==
    /\ panic # "assert_legend_len"
    /\ GraphDrawn =>
          LET width == Len(lines[1][1].text)
          IN /\ Len(lines) = SWELL_GRAPH_HEIGHT
             /\ \A r \in 1..SWELL_GRAPH_HEIGHT : Len(lines[r][1].text) = width
             /\ \A r \in 2..(SWELL_GRAPH_HEIGHT - 1) : lines[r][1].text = Rep(" ", width)
             /\ Trim(lines[1][1].text) # <<>>
             /\ Trim(lines[SWELL_GRAPH_HEIGHT][1].text) # <<>>
             /\ Len(lines[1][1].text) = Len(lines[SWELL_GRAPH_HEIGHT][1].text)

\* C15 witness: the labels "13.5 ft" and "0 ft"; the shorter number is padded
C15_Witness ==
    /\ GraphDrawn
    /\ lines[1][1].text = <<" ", "1", "3", ".", "5", " ", "f", "t", " ">>
    /\ lines[SWELL_GRAPH_HEIGHT][1].text = <<" ", " ", " ", " ", "0", " ", "f", "t", " ">>

\* C16 (as claimed): in the interior lines of a Graph and of a Day every data column
\* of every row is bin_width cells wide, bin_width being the free width (interior
\* less legend less boundary columns) divided by the number of records, rounded
\* down, and the last span of the row holds the whole remainder of the division,
\* which is less than the number of records.
C16_ColumnWidths ==
    /\ GraphDrawn =>
          LET n == Len(forecast)
              free == INTERIOR_VIEWPOINT_WIDTH - Len(lines[1][1].text) - (n - 1)
          IN \A r \in 1..Len(lines) :
                /\ \A x \in 1..n : Len(lines[r][2 * x].text) = free \div n
                /\ Len(lines[r][2 * n + 1].text) = free % n
    /\ DayDrawn =>
          LET n == Len(forecast)
              free == INTERIOR_VIEWPOINT_WIDTH - LEGEND_WIDTH - n * BOUNDARY_WIDTH
          IN \A r \in 1..Len(lines) :
                Len(lines[r]) > 1 =>
                    /\ \A x \in 1..n : Len(lines[r][2 * x + 1].text) = free \div n
                    /\ Len(lines[r][2 * n + 2].text) = free % n

\* the interior lines of the Day that are rows of the table, not blank separators
DataRows ==
    LET IsRow(line) == Len(line) > 1
    IN SelectSeq(lines, IsRow)

\* the legends of the rows of the table, top to bottom
RowLegends == [r \in 1..Len(DataRows) |-> Trim(DataRows[r][1].text)]

\* C17: the rows of a Day are the Time row, then the three Primary-swell rows if
\* and only if some record of the slice has a primary component, then the three
\* Secondary-swell rows if and only if some record has a secondary component,
\* then the two Wind rows and the Air row; each row has a cell per record.
C17_Rows ==
    DayDrawn =>
        LET n == Len(forecast)
            has_primary == \E i \in 1..n : forecast[i].swell.components.primary.some
            has_secondary == \E i \in 1..n : forecast[i].swell.components.secondary.some
        IN /\ RowLegends
                = <<<<"T", "i", "m", "e">>>>
                  \o (IF has_primary
                      THEN <<<<>>, <<"P", "r", "i", "m", "a", "r", "y">>,
                             <<"S", "w", "e", "l", "l">>>>
                      ELSE <<>>)
                  \o (IF has_secondary
                      THEN <<<<>>, <<"S", "e", "c", "o", "n", "d", "a", "r", "y">>,
                             <<"S", "w", "e", "l", "l">>>>
                      ELSE <<>>)
                  \o <<<<>>, <<"W", "i", "n", "d">>, <<"A", "i", "r">>>>
           /\ \A r \in 1..Len(DataRows) : Len(DataRows[r]) = 2 * n + 2

\* C17 witness: a slice of 8 records without swell components, drawn as the Time
\* row, the two Wind rows and the Air row
C17_Witness ==
    /\ DayDrawn
    /\ Len(forecast) = 8
    /\ \A i \in 1..8 :
          /\ ~forecast[i].swell.components.primary.some
          /\ ~forecast[i].swell.components.secondary.some
    /\ Len(DataRows) = 4

\* the string `part` stands in `out` at index i
IsAt(out, i, part) ==
    /\ i + Len(part) - 1 <= Len(out)
    /\ SubSeq(out, i, i + Len(part) - 1) = part

\* reading the escapes of a terminal output from index i on, a color being open or
\* not: "closed" when every color escape is followed by a reset before the next
\* color escape and before the end, and no reset stands without a color
RECURSIVE AnsiScan(_, _, _)
AnsiScan(out, i, open) ==
    IF i > Len(out) THEN (IF open THEN "open" ELSE "closed")
    ELSE IF out[i] # "ESC" THEN AnsiScan(out, i + 1, open)
    ELSE IF IsAt(out, i, RESET)
         THEN (IF open THEN AnsiScan(out, i + Len(RESET), FALSE) ELSE "stray_reset")
    ELSE IF \E code \in {RED, GREEN, BLUE} : IsAt(out, i, code)
         THEN (IF open THEN "nested" ELSE AnsiScan(out, i + Len(RED), TRUE))
    ELSE "unknown_escape"

\* the number of places of `out` the string `part` stands at
Occurrences(out, part) == Cardinality({i \in 1..Len(out) : IsAt(out, i, part)})

\* the spans of the View with a foreground color
Colored == {i \in 1..Len(spans) : spans[i].style.fg # "None"}

\* C19: the terminal output is, span after span in order, the SGR escape of the
\* span's foreground (31 Red, 32 Green, 34 Blue) if it has one, then its text or a
\* line feed for a break, then the reset escape if and only if it has a foreground;
\* so every color escape is followed by a reset before any other color escape, no
\* reset stands alone, and the output ends with no color open.
C19_Terminal ==
    Called("Terminal") =>
        LET out == ret[1]
            sgr(fg) == IF fg = "Red" THEN <<"ESC", "[", "0", ";", "3", "1", "m">>
                       ELSE IF fg = "Green" THEN <<"ESC", "[", "0", ";", "3", "2", "m">>
                       ELSE <<"ESC", "[", "0", ";", "3", "4", "m">>
            piece(span) ==
                IF span.style.fg = "None" THEN (IF span.newline THEN <<"\n">> ELSE span.text)
                ELSE sgr(span.style.fg)
                     \o (IF span.newline THEN <<"\n">> ELSE span.text)
                     \o <<"ESC", "[", "0", "m">>
        IN /\ out = Concat([i \in 1..Len(spans) |-> piece(spans[i])])
           /\ AnsiScan(out, 1, FALSE) = "closed"
           /\ Occurrences(out, RESET) = Cardinality(Colored)
           /\ Colored = {} => Occurrences(out, <<"ESC">>) = 0

\* C19 witness: a Red text, then a Blue line break: two colors, each reset
C19_Witness ==
    /\ Called("Terminal")
    /\ Len(spans) = 2
    /\ spans[1].style.fg = "Red" /\ spans[1].text = <<"a", "b">>
    /\ spans[2].style.fg = "Blue" /\ spans[2].newline
    /\ ret[1] = RED \o <<"a", "b">> \o RESET \o BLUE \o <<"\n">> \o RESET

\* the output of the Browser between the preamble and the closing tags
HtmlBody(out) == SubSeq(out, Len(PREAMBLE) + 1, Len(out) - Len(CLOSING))

\* reading the span tags of an HTML body from index i on, at nesting depth d:
\* "closed" when every opening tag names a class, is opened at depth 0 and is
\* closed before the next one and before the end
RECURSIVE TagScan(_, _, _)
TagScan(body, i, d) ==
    IF i > Len(body) THEN (IF d = 0 THEN "closed" ELSE "open")
    ELSE IF body[i] = "<span class=\""
         THEN (IF d # 0 THEN "nested"
               ELSE IF /\ i + 2 <= Len(body)
                       /\ body[i + 1] \in {"red", "green", "blue"}
                       /\ body[i + 2] = "\">"
                    THEN TagScan(body, i + 3, 1)
               ELSE "broken_tag")
    ELSE IF body[i] = "</span>"
         THEN (IF d = 1 THEN TagScan(body, i + 1, 0) ELSE "stray_close")
    ELSE TagScan(body, i + 1, d)

\* the elements of a body that are not part of a span tag
RECURSIVE StripTags(_)
StripTags(body) ==
    IF body = <<>> THEN <<>>
    ELSE IF Head(body) = "<span class=\"" THEN StripTags(SubSeq(body, 4, Len(body)))
    ELSE IF Head(body) = "</span>" THEN StripTags(Tail(body))
    ELSE <<Head(body)>> \o StripTags(Tail(body))

\* C20: the browser output is the fixed preamble, which ends in an opening <pre>,
\* then for each span in order its content, wrapped in one <span class="red">,
\* "green" or "blue" tag pair if and only if it has a foreground color, a break
\* being a line feed, then the fixed closing tags; tags are never nested, every
\* opened tag is closed within its span, and no <br> is written.
C20_Browser ==
    Called("Browser") =>
        LET out == ret[1]
            body == HtmlBody(out)
            breaks == {i \in 1..Len(spans) : spans[i].newline}
        IN /\ IsAt(out, 1, PREAMBLE)
           /\ PREAMBLE[Len(PREAMBLE)] = "<pre>"
           /\ IsAt(out, Len(out) - Len(CLOSING) + 1, CLOSING)
           /\ TagScan(body, 1, 0) = "closed"
           /\ Occurrences(body, <<"<span class=\"">>) = Cardinality(Colored)
           /\ Occurrences(body, <<"</span>">>) = Cardinality(Colored)
           /\ Occurrences(body, <<"<br>">>) = 0
           /\ Occurrences(body, <<"\n">>) = Cardinality(breaks)
           /\ StripTags(body) = Concat([i \in 1..Len(spans) |-> ContentStr(spans[i])])
           /\ \A i \in 1..Len(spans) :
                 LET before == Concat([j \in 1..(i - 1) |-> BrowserSpan(spans[j])])
                     class == IF spans[i].style.fg = "Red" THEN "red"
                              ELSE IF spans[i].style.fg = "Green" THEN "green"
                              ELSE "blue"
                 IN IF i \in Colored
                    THEN /\ IsAt(body, Len(before) + 1, <<"<span class=\"", class, "\">">>)
                         /\ IsAt(body, Len(before) + 4 + Len(ContentStr(spans[i])),
                                 <<"</span>">>)
                    ELSE IsAt(body, Len(before) + 1, ContentStr(spans[i]))

\* C20 witness: a Green text, then a plain line break
C20_Witness ==
    /\ Called("Browser")
    /\ Len(spans) = 2
    /\ spans[1].style.fg = "Green" /\ spans[1].text = <<"a", "b">>
    /\ spans[2].style.fg = "None" /\ spans[2].newline
    /\ HtmlBody(ret[1])
          = <<"<span class=\"", "green", "\">", "a", "b", "</span>", "\n">>

\* the View of a forecast, as a function of the forecast alone
ViewOf(fcs) ==
    Border(GraphTitle(GraphNew(fcs)), GraphDrawInner(GraphNew(fcs)))
    \o DaySpans(SplitInclusive(fcs))

\* the cells of the Time rows of a View, in the order of its spans: the texts that
\* read as a time of day
TimeCells(view_spans) ==
    LET IsTime(span) ==
            /\ ~span.newline
            /\ Len(Trim(span.text)) \in 3..4
            /\ SubSeq(Trim(span.text), Len(Trim(span.text)) - 1, Len(Trim(span.text)))
                  \in {<<"a", "m">>, <<"p", "m">>}
        kept == SelectSeq(view_spans, IsTime)
    IN [i \in 1..Len(kept) |-> Trim(kept[i].text)]

\* the foreground colors of the bins of the first row of the Graph of a View of n
\* records; the row starts after the five header spans, the break, the border and
\* the legend
GraphRowColors(view_spans, n) == [x \in 1..n |-> view_spans[7 + 2 * x].style.fg]

\* ui::render has returned from the last call
UiReturned == entry = "View" /\ pc = "returned" /\ Len(ret) = Len(args)

C22_SpanApi ==
    Called("Span") =>
        /\ ret[1].style = [fg |-> "None", bg |-> "None", bold |-> FALSE]
        /\ ret[1].newline = (args[1].op = "newline")
        /\ args[1].op = "new" => ret[1].text = args[1].text
        /\ \A k \in 2..Len(ret) :
              LET old == ret[k - 1]
                  new == ret[k]
                  op == args[k].op
              IN /\ new.newline = old.newline
                 /\ new.text = old.text
                 /\ new.style.fg = (IF op = "fg" THEN args[k].color ELSE old.style.fg)
                 /\ new.style.bg = (IF op = "bg" THEN args[k].color ELSE old.style.bg)
                 /\ new.style.bold = (IF op = "bold" THEN TRUE ELSE old.style.bold)
        /\ (Len(args) = 3 /\ {args[2].op, args[3].op} = {"fg", "bg"}) =>
              LET c1 == IF args[2].op = "fg" THEN args[2].color ELSE args[3].color
                  c2 == IF args[2].op = "bg" THEN args[2].color ELSE args[3].color
              IN ret[3].style = [fg |-> c1, bg |-> c2, bold |-> FALSE]

\* C22 witness: Span::new("hi") styled with fg(Blue).bg(Red)
C22_Witness ==
    /\ Called("Span")
    /\ args = <<[op |-> "new", text |-> <<"h", "i">>], [op |-> "fg", color |-> "Blue"],
                [op |-> "bg", color |-> "Red"]>>
    /\ ret[3] = [newline |-> FALSE, text |-> <<"h", "i">>,
                 style |-> [fg |-> "Blue", bg |-> "Red", bold |-> FALSE]]

\* the positions of the break spans of a span sequence
BreaksOf(ss) == {i \in 1..Len(ss) : ss[i].newline}

\* the position of the k-th break of a span sequence; 0 for k = 0 and one past the
\* end for the break after the last
BreakAt(ss, k) ==
    IF k = 0 THEN 0
    ELSE IF k > Cardinality(BreaksOf(ss)) THEN Len(ss) + 1
    ELSE CHOOSE p \in BreaksOf(ss) : Cardinality({q \in BreaksOf(ss) : q < p}) = k - 1

\* the k-th row of a span sequence: the spans between two breaks
RowOf(ss, k) == SubSeq(ss, BreakAt(ss, k - 1) + 1, BreakAt(ss, k) - 1)

\* Border::draw of a Graph or of a Day has returned: `spans` is its result and
\* `lines` the interior lines it was given
SectionDrawn == entry \in {"Graph", "Day"} /\ pc = "done"

\* C23: the spans Border.draw returns for k >= 1 interior lines are k + 4 non-empty
\* rows with one break span between two rows and no break after the last: the
\* three header rows, then for each interior line, in order, the line between two
\* vertical bars, then the bottom row, one span made of the bottom-left corner,
\* INTERIOR_VIEWPOINT_WIDTH horizontal rules and the bottom-right corner.
C23_BorderRows ==
    (SectionDrawn /\ Len(lines) >= 1) =>
        LET k == Len(lines)
            bar == SpanNew(<<LINE_VERT>>)
        IN /\ Cardinality(BreaksOf(spans)) = k + 3
           /\ ~spans[1].newline
           /\ ~spans[Len(spans)].newline
           /\ \A i \in 1..(Len(spans) - 1) : ~(spans[i].newline /\ spans[i + 1].newline)
           /\ \A r \in 1..3 : RowOf(spans, r) = <<header[2 * r - 1]>>
           /\ \A i \in 1..k : RowOf(spans, 3 + i) = <<bar>> \o lines[i] \o <<bar>>
           /\ RowOf(spans, k + 4)
                 = <<SpanNew(<<CORNER_BTM_LEFT>>
                             \o Rep(LINE_HORIZONTAL, INTERIOR_VIEWPOINT_WIDTH)
                             \o <<CORNER_BTM_RIGHT>>)>>

\* C23 witness: a Day of 14 interior lines drawn as 18 rows
C23_Witness ==
    /\ SectionDrawn
    /\ entry = "Day"
    /\ Len(lines) = 14
    /\ Cardinality(BreaksOf(spans)) = 17
    /\ RowOf(spans, 18)[1].text[1] = CORNER_BTM_LEFT

\* the column of a glyph in a header line
ColumnOf(line, glyph) == CHOOSE i \in 1..Len(line) : line[i] = glyph

\* C26: for every title whose header fits the viewport (at most
\* INTERIOR_VIEWPOINT_WIDTH - 4 characters) the left side of the title box stands
\* in one column of the three header lines (top-left corner, left tee, bottom-left
\* corner) and so does its right side (top-right corner, right tee, bottom-right
\* corner), the title between them.
C26_BoxAligned ==
    (entry = "Border" /\ pc = "done" /\ Len(title_in) <= INTERIOR_VIEWPOINT_WIDTH - 4) =>
        LET top == HeaderLines[1]
            mid == HeaderLines[2]
            btm == HeaderLines[3]
            left == ColumnOf(top, CORNER_TOP_LEFT)
            right == ColumnOf(top, CORNER_TOP_RIGHT)
        IN /\ ColumnOf(mid, TEE_LEFT) = left
           /\ ColumnOf(btm, CORNER_BTM_LEFT) = left
           /\ ColumnOf(mid, TEE_RIGHT) = right
           /\ ColumnOf(btm, CORNER_BTM_RIGHT) = right
           /\ right - left = Len(title_in) + 3
           /\ SubSeq(mid, left + 1, right - 1) = PaddedTitle(title_in)

\* C26 witness: the header of a title of odd length, whose box cannot be centred
\* exactly
C26_Witness ==
    /\ entry = "Border"
    /\ pc = "done"
    /\ Len(title_in) = 11
    /\ ColumnOf(HeaderLines[1], CORNER_TOP_LEFT) = 38
    /\ ColumnOf(HeaderLines[3], CORNER_BTM_LEFT) = 38

\* C25 (as claimed): for every record of every non-empty forecast the scaled height
\* is at most SWELL_GRAPH_HEIGHT, so SWELL_GRAPH_HEIGHT - scale(..) does not
\* underflow and the glyph row lies in 0..SWELL_GRAPH_HEIGHT.
C25_RowInRange ==
    (GraphDrawEnded /\ panic \notin WidthPanics) =>
        /\ panic # "subtract_overflow_height"
        /\ \A x \in 1..Len(forecast) :
              /\ Scale(graph, forecast[x].swell.abs_max_breaking_height)
                    <= SWELL_GRAPH_HEIGHT
              /\ GlyphRow(graph, x) \in 0..SWELL_GRAPH_HEIGHT

\* the interior line is a blank separator
IsBlankLine(line) == \A i \in 1..Len(line) : Trim(line[i].text) = <<>>

\* C27 (as claimed): in the interior lines of every Day no two blank lines are
\* adjacent, and the first and the last line are not blank.
C27_SingleBlank ==
    DayDrawn =>
        /\ \A r \in 1..(Len(lines) - 1) :
              ~(IsBlankLine(lines[r]) /\ IsBlankLine(lines[r + 1]))
        /\ ~IsBlankLine(lines[1])
        /\ ~IsBlankLine(lines[Len(lines)])

\* a terminal output without its color and reset escapes
RECURSIVE StripAnsi(_)
StripAnsi(out) ==
    IF out = <<>> THEN <<>>
    ELSE IF IsAt(out, 1, RESET) THEN StripAnsi(SubSeq(out, Len(RESET) + 1, Len(out)))
    ELSE IF \E code \in {RED, GREEN, BLUE} : IsAt(out, 1, code)
         THEN StripAnsi(SubSeq(out, Len(RED) + 1, Len(out)))
    ELSE <<Head(out)>> \o StripAnsi(Tail(out))

\* a View without the bg and bold attributes of its spans
WithoutBgBold(view_spans) ==
    [i \in 1..Len(view_spans) |->
        [view_spans[i] EXCEPT !.style.bg = "None", !.style.bold = FALSE]]

\* C28: the Terminal output of a View without its color and reset escapes, and the
\* Browser output of the View without its preamble, closing tags and span tags,
\* are both the texts of the spans in order, a line feed for each break span; and
\* the output of a renderer is the one it gives for the View with the bg and bold
\* attributes cleared.
C28_SameText ==
    (Called("Terminal") \/ Called("Browser")) =>
        LET terminal == IF entry = "Terminal" THEN ret[1] ELSE TerminalRender(spans)
            browser == IF entry = "Browser" THEN ret[1] ELSE BrowserRender(spans)
            text == Concat([i \in 1..Len(spans) |->
                               IF spans[i].newline THEN <<"\n">> ELSE spans[i].text])
        IN /\ StripAnsi(terminal) = text
           /\ StripTags(HtmlBody(browser)) = text
           /\ StripAnsi(terminal) = StripTags(HtmlBody(browser))
           /\ entry = "Terminal" => ret[1] = TerminalRender(WithoutBgBold(spans))
           /\ entry = "Browser" => ret[1] = BrowserRender(WithoutBgBold(spans))

\* C28 witness: the terminal output of a bold Green text on Blue and a plain break
C28_Witness ==
    /\ Called("Terminal")
    /\ Len(spans) = 2
    /\ spans[1].style = [fg |-> "Green", bg |-> "Blue", bold |-> TRUE]
    /\ spans[1].text = <<"a", "b">>
    /\ spans[2].newline
    /\ StripAnsi(ret[1]) = <<"a", "b", "\n">>

-----------------------------------------------------------------------------
(* The spot crawler (msw/crawler.rs) *)

\* longest list of anchors the selector matches in the site map
MaxAnchors == 2

UPPER == <<"A", "B", "C", "D", "E", "F", "G", "H", "I", "J", "K", "L", "M",
           "N", "O", "P", "Q", "R", "S", "T", "U", "V", "W", "X", "Y", "Z">>

LOWER == <<"a", "b", "c", "d", "e", "f", "g", "h", "i", "j", "k", "l", "m",
           "n", "o", "p", "q", "r", "s", "t", "u", "v", "w", "x", "y", "z">>

\* str::to_lowercase, on ASCII text
ToLowercase(text) ==
    [i \in 1..Len(text) |->
        IF \E k \in 1..Len(UPPER) : UPPER[k] = text[i]
        THEN LOWER[CHOOSE k \in 1..Len(UPPER) : UPPER[k] = text[i]]
        ELSE text[i]]

IsWhitespace(c) == c \in {" ", "\n", "\t"}

RECURSIVE SplitWhitespace(_)
\* str::split_whitespace: the maximal runs of non-whitespace, none of them empty
SplitWhitespace(text) ==
    IF text = <<>> THEN <<>>
    ELSE IF IsWhitespace(Head(text)) THEN SplitWhitespace(Tail(text))
    ELSE LET ends == {i \in 1..Len(text) : IsWhitespace(text[i])}
             stop == IF ends = {} THEN Len(text) + 1 ELSE MinOf(ends)
         IN <<SubSeq(text, 1, stop - 1)>>
            \o SplitWhitespace(SubSeq(text, stop, Len(text)))

RECURSIVE Join(_, _)
\* [&str]::join
Join(words, sep) ==
    IF words = <<>> THEN <<>>
    ELSE IF Len(words) = 1 THEN words[1]
    ELSE words[1] \o <<sep>> \o Join(Tail(words), sep)

\* the spot_name of an anchor: its inner HTML in lower case, the words joined by '-'
SpotName(anchor) == Join(SplitWhitespace(ToLowercase(anchor.inner_html)), "-")

\* str::trim_end_matches(c): every trailing c is removed
TrimEndMatches(text, c) ==
    LET kept == {i \in 1..Len(text) : text[i] # c}
    IN IF kept = {} THEN <<>> ELSE SubSeq(text, 1, MaxOf(kept))

\* str::rsplit_once(c): the text before and after the last c, None without a c
RSplitOnce(text, c) ==
    LET at == {i \in 1..Len(text) : text[i] = c}
    IN IF at = {} THEN [some |-> FALSE, left |-> <<>>, right |-> <<>>]
       ELSE [some |-> TRUE, left |-> SubSeq(text, 1, MaxOf(at) - 1),
             right |-> SubSeq(text, MaxOf(at) + 1, Len(text))]

DecimalDigits == {"0", "1", "2", "3", "4", "5", "6", "7", "8", "9"}

U16_MAX == 65535

\* the digit a decimal character stands for
DigitValue(c) == CHOOSE d \in 0..9 : Digit(d) = c

RECURSIVE DecimalValue(_)
\* the number a text of decimal digits reads as, or U16_MAX + 1 when it is larger
\* than U16_MAX (the checked multiplication and addition of from_str_radix)
DecimalValue(digits) ==
    IF digits = <<>> THEN 0
    ELSE LET n == 10 * DecimalValue(SubSeq(digits, 1, Len(digits) - 1))
                  + DigitValue(digits[Len(digits)])
         IN IF n > U16_MAX THEN U16_MAX + 1 ELSE n

\* a Result: Ok(value) or Err(error)
Ok(v) == [ok |-> TRUE, value |-> v, error |-> ""]

Err(e) == [ok |-> FALSE, value |-> 0, error |-> e]

\* ParseU16 wrapping around at 2^16 in place of the overflow error
ParseU16Wrapping(s) ==
    LET RECURSIVE Wrapped(_)
        Wrapped(digits) ==
            IF digits = <<>> THEN 0
            ELSE (10 * Wrapped(SubSeq(digits, 1, Len(digits) - 1))
                  + DigitValue(digits[Len(digits)])) % (U16_MAX + 1)
        digits == IF s # <<>> /\ Head(s) = "+" THEN Tail(s) ELSE s
    IN IF s = <<>> THEN Err("Empty")
       ELSE IF digits = <<>> \/ \E i \in 1..Len(digits) : digits[i] \notin DecimalDigits
       THEN Err("InvalidDigit")
       ELSE Ok(Wrapped(digits))

\* str::parse::<u16>: an optional '+', then one or more decimal digits, of a value
\* of at most U16_MAX
ParseU16(s) ==
    LET digits == IF s # <<>> /\ Head(s) = "+" THEN Tail(s) ELSE s
    IN IF s = <<>> THEN Err("Empty")
       ELSE IF digits = <<>> \/ \E i \in 1..Len(digits) : digits[i] \notin DecimalDigits
       THEN Err("InvalidDigit")
       ELSE IF DecimalValue(digits) > U16_MAX THEN Err("PosOverflow")
       ELSE Ok(DecimalValue(digits))

\* the spot_id of an anchor: the text after the last '/' of its href without the
\* trailing '/'s, parsed as a u16
SpotId(anchor) ==
    LET split == RSplitOnce(TrimEndMatches(anchor.href.value, "/"), "/")
    IN IF ~anchor.href.some \/ ~split.some
       THEN Err("Failed to find spot ID in HTML anchor")
       ELSE IF ~ParseU16(split.right).ok
       THEN Err("Couldn't parse spot ID into integer")
       ELSE ParseU16(split.right)

\* Map::new
MapNew == <<>>

\* Map::insert: the value of an equal key is replaced
MapInsert(map, key, value) ==
    [k \in DOMAIN map \cup {key} |-> IF k = key THEN value ELSE map[k]]

\* the order of the bytes of the keys: '-' comes before the letters
ByteRank(c) == IF \E k \in 1..Len(LOWER) : LOWER[k] = c
               THEN CHOOSE k \in 1..Len(LOWER) : LOWER[k] = c
               ELSE 0

\* Ord of str: a is less than b, byte by byte
StrLess(a, b) ==
    \E n \in 0..Len(a) :
        /\ n <= Len(b)
        /\ \A i \in 1..n : a[i] = b[i]
        /\ IF n = Len(a) THEN n < Len(b)
           ELSE n < Len(b) /\ ByteRank(a[n + 1]) < ByteRank(b[n + 1])

RECURSIVE SortedKeys(_)
\* the keys of a Map in the order its iterator yields them (a BTreeMap: sorted)
SortedKeys(keys) ==
    IF keys = {} THEN <<>>
    ELSE LET first == CHOOSE k \in keys : \A o \in keys \ {k} : StrLess(k, o)
         IN <<first>> \o SortedKeys(keys \ {first})

\* serde_json::to_writer of Value::Object(map): the compact JSON text
JsonObject(map) ==
    LET keys == SortedKeys(DOMAIN map)
        member(k) == <<"\"">> \o k \o <<"\"", ":">> \o DecStr(map[k])
    IN <<"{">> \o Join([i \in 1..Len(keys) |-> member(keys[i])], ",") \o <<"}">>

\* the hrefs of the anchors: none, the site's form, a '+' id after an only '/', no
\* '/', an id above U16_MAX, U16_MAX before two '/', a segment that is no number
CrawlHrefs ==
    {[some |-> FALSE, value |-> <<>>],
     [some |-> TRUE, value |-> <<"/", "r", "/", "4", "2", "0", "3", "/">>],
     [some |-> TRUE, value |-> <<"/", "+", "7">>],
     [some |-> TRUE, value |-> <<"4", "2", "0", "3">>],
     [some |-> TRUE, value |-> <<"/", "r", "/", "6", "5", "5", "3", "6", "/">>],
     [some |-> TRUE, value |-> <<"/", "r", "/", "6", "5", "5", "3", "5", "/", "/">>],
     [some |-> TRUE, value |-> <<"/", "r", "/", "x", "/">>]}

\* the texts of the anchors: "Ormond Beach", the same name in other letters and
\* spacing, and "Pipe"
CrawlTexts ==
    {<<"O", "r", "m", "o", "n", "d", " ", "B", "e", "a", "c", "h">>,
     <<" ", "o", "r", "m", "o", "n", "d", "\n", "\t", "B", "E", "A", "C", "H", " ">>,
     <<"P", "i", "p", "e">>}

\* the anchors matched in a site map: at most MaxAnchors of them
CrawlInputs ==
    UNION {[1..n -> [href : CrawlHrefs, inner_html : CrawlTexts]] : n \in 0..MaxAnchors}

\* the body of the loop of parse_spot_ids for the next anchor: the spot is
\* inserted, or the function returns the error and its locals are dropped
ParseAnchorStep ==
    /\ entry = "parse_spot_ids"
    /\ pc = "parse_loop"
    /\ anchors # <<>>
    /\ IF SpotId(Head(anchors)).ok
       THEN /\ spot_json_map' = MapInsert(spot_json_map, SpotName(Head(anchors)),
                                          SpotId(Head(anchors)).value)
            /\ anchors' = Tail(anchors)
            /\ UNCHANGED <<pc, ret>>
       ELSE /\ ret' = <<Err(SpotId(Head(anchors)).error)>>
            /\ pc' = "done"
            /\ spot_json_map' = MapNew
            /\ anchors' = <<>>
    /\ UNCHANGED <<writer, requests, args, entry, build, forecast, title_in, graph, cur,
                   day, lines, header, days, sections, spans, panic>>

\* to_writer after the loop: the writer takes the whole text and the function
\* returns Ok, or the writer fails after none, one or all but one of its characters
ParseWriteStep ==
    /\ entry = "parse_spot_ids"
    /\ pc = "parse_loop"
    /\ anchors = <<>>
    /\ LET json == JsonObject(spot_json_map)
       IN \E taken \in {0, 1, Len(json) - 1, Len(json)} :
             /\ writer' = writer \o SubSeq(json, 1, taken)
             /\ ret' = <<IF taken = Len(json) THEN Ok(0) ELSE Err("io")>>
    /\ pc' = "done"
    /\ spot_json_map' = MapNew
    /\ UNCHANGED <<anchors, requests, args, entry, build, forecast, title_in, graph, cur,
                   day, lines, header, days, sections, spans, panic>>

\* parse_spot_ids on every list of anchors
InitCrawl ==
    /\ build \in Profiles
    /\ \E a \in CrawlInputs :
          /\ entry = "parse_spot_ids"
          /\ pc = "parse_loop"
          /\ args = a
          /\ anchors = a
          /\ spot_json_map = MapNew
          /\ writer = <<>>
          /\ ret = <<>>
          /\ requests = <<>>
          /\ forecast = <<>>
          /\ title_in = <<>>
          /\ graph = NoGraph
          /\ cur = <<>>
          /\ day = NoDay
          /\ lines = <<>>
          /\ header = <<>>
          /\ days = <<>>
          /\ sections = <<>>
          /\ spans = <<>>
          /\ panic = "none"

NextCrawl ==
    \/ ParseAnchorStep
    \/ ParseWriteStep

SpecCrawl == InitCrawl /\ [][NextCrawl]_vars

\* parse_spot_ids has returned
Parsed == entry = "parse_spot_ids" /\ pc = "done"

\* C24 (as claimed): after parse_spot_ids returned Ok, the writer holds one JSON
\* object that maps, for every anchor, the anchor's name to the anchor's id.
C24_EveryAnchorMapped ==
    (Parsed /\ ret[1].ok) =>
        \E map \in [{SpotName(args[i]) : i \in 1..Len(args)}
                        -> {SpotId(args[i]).value : i \in 1..Len(args)}] :
            /\ writer = JsonObject(map)
            /\ \A i \in 1..Len(args) : map[SpotName(args[i])] = SpotId(args[i]).value

\* the anchor has no href, or its href without the trailing '/'s has no '/', or
\* the text after its last '/' is not an optional '+' and decimal digits of a value
\* of at most U16_MAX
Malformed(anchor) ==
    LET href == anchor.href.value
        kept == {i \in 1..Len(href) : href[i] # "/"}
        slashes == {i \in 1..Len(href) : href[i] = "/" /\ i < MaxOf(kept)}
        segment == SubSeq(href, MaxOf(slashes) + 1, MaxOf(kept))
        number == IF Head(segment) = "+" THEN Tail(segment) ELSE segment
    IN \/ ~anchor.href.some
       \/ kept = {}
       \/ slashes = {}
       \/ number = <<>>
       \/ \E i \in 1..Len(number) : number[i] \notin DecimalDigits
       \/ DecimalValue(number) > U16_MAX

\* C29: parse_spot_ids visits an anchor only after all anchors before it gave a
\* spot id; the writer has received nothing before the function has returned, and
\* nothing at all when some anchor is malformed, in which case the function returns
\* an error of the anchor.
C29_AllOrNothing ==
    entry = "parse_spot_ids" =>
        /\ pc = "parse_loop" =>
              /\ writer = <<>>
              /\ \A i \in 1..(Len(args) - Len(anchors)) : ~Malformed(args[i])
        /\ writer # <<>> => \A i \in 1..Len(args) : ~Malformed(args[i])
        /\ (pc = "done" /\ \E i \in 1..Len(args) : Malformed(args[i])) =>
              /\ ~ret[1].ok
              /\ ret[1].error \in {"Failed to find spot ID in HTML anchor",
                                   "Couldn't parse spot ID into integer"}
              /\ writer = <<>>

\* C29 witness: the second of two anchors has an id above U16_MAX; the function
\* has returned the error and the writer is empty
C29_Witness ==
    /\ Parsed
    /\ Len(args) = 2
    /\ ~Malformed(args[1])
    /\ args[2].href.value = <<"/", "r", "/", "6", "5", "5", "3", "6", "/">>
    /\ ret[1] = Err("Couldn't parse spot ID into integer")
    /\ writer = <<>>

-----------------------------------------------------------------------------
(* The server's spot handler (server/src/main.rs) *)

\* Spots::get_id
SpotsGetId(spots, name) ==
    IF name \in DOMAIN spots THEN [some |-> TRUE, value |-> spots[name]]
    ELSE [some |-> FALSE, value |-> 0]

\* ResolveSpotId looking the segment up in the spot map before parsing it
ResolveSpotIdMapFirst(spot_name, spots) ==
    IF SpotsGetId(spots, spot_name).some THEN Ok(SpotsGetId(spots, spot_name).value)
    ELSE IF ParseU16(spot_name).ok THEN ParseU16(spot_name)
    ELSE Err("spot name not found")

\* spot_name.parse::<u16>().or_else(|_| spots.get_id(..).ok_or_else(ErrorNotFound))
ResolveSpotId(spot_name, spots) ==
    IF ParseU16(spot_name).ok THEN ParseU16(spot_name)
    ELSE IF SpotsGetId(spots, spot_name).some
    THEN Ok(SpotsGetId(spots, spot_name).value)
    ELSE Err("spot name not found")

\* RenderChoice::into_response: status 200 and the rendered View as the body
IntoResponse(render, fcs) ==
    [status |-> 200,
     content_type |-> IF render = "Browser" THEN "text/html; charset=utf-8" ELSE "",
     error |-> "",
     body |-> IF render = "Terminal" THEN TerminalRender(ViewOf(fcs))
              ELSE BrowserRender(ViewOf(fcs))]

\* the response of an actix error: its status and its message, no rendered body
ErrorResponse(status, message) ==
    [status |-> status, content_type |-> "", error |-> message, body |-> <<>>]

\* the path segments: an id (also a key of a spot map), an id with a sign, a number
\* above U16_MAX (also a key), a known and an unknown name
ServerSegments ==
    {<<"4", "2", "0", "3">>, <<"+", "7">>, <<"6", "5", "5", "3", "6">>,
     <<"p", "i", "p", "e">>, <<"n", "o">>}

\* the spot maps: one of names only, and one with numeric keys too
ServerSpots ==
    {[n \in {<<"p", "i", "p", "e">>} |-> 616],
     [n \in {<<"p", "i", "p", "e">>, <<"4", "2", "0", "3">>,
             <<"6", "5", "5", "3", "6">>} |-> IF n = <<"p", "i", "p", "e">> THEN 616
                                               ELSE IF n = <<"4", "2", "0", "3">> THEN 1
                                               ELSE 9]}

\* what ForecastAPI::get will come to: no API key in the build, a failed request,
\* or the forecast the API answers with
ApiOutcomes ==
    {[outcome |-> o, forecast |-> <<>>] : o \in {"missing_key", "send_error"}}
    \cup {[outcome |-> "ok", forecast |-> fcs] : fcs \in UiForecasts}

\* the requests the handler is called with
ServerCalls ==
    [spot_name : ServerSegments, units : {"None", "Us"}, spots : ServerSpots,
     render : {"Terminal", "Browser"}, api : ApiOutcomes]

\* get_spot_inner, the resolution of the spot id: the handler goes on to the
\* forecast, or returns the NotFound error
GetSpotResolveStep ==
    /\ entry = "get_spot_inner"
    /\ pc = "resolve"
    /\ IF ResolveSpotId(args[1].spot_name, args[1].spots).ok
       THEN pc' = "fetch" /\ UNCHANGED ret
       ELSE /\ pc' = "done"
            /\ ret' = <<ErrorResponse(404, "spot name not found")>>
    /\ UNCHANGED <<anchors, spot_json_map, writer, requests, args, entry, build,
                   forecast, title_in, graph, cur, day, lines, header, days, sections,
                   spans, panic>>

\* ForecastAPI::get(spot_id): without an API key it fails before the request;
\* otherwise the request is sent, and fails or yields the forecast
GetSpotFetchStep ==
    /\ entry = "get_spot_inner"
    /\ pc = "fetch"
    /\ requests' = IF args[1].api.outcome = "missing_key" THEN requests
                   ELSE Append(requests,
                               [spot_id |-> ResolveSpotId(args[1].spot_name,
                                                          args[1].spots).value,
                                units |-> args[1].units])
    /\ IF args[1].api.outcome = "ok"
       THEN /\ forecast' = args[1].api.forecast
            /\ pc' = "respond"
            /\ UNCHANGED ret
       ELSE /\ ret' = <<ErrorResponse(500, IF args[1].api.outcome = "missing_key"
                                           THEN "Missing API Key"
                                           ELSE "error sending request")>>
            /\ pc' = "done"
            /\ UNCHANGED forecast
    /\ UNCHANGED <<anchors, spot_json_map, writer, args, entry, build, title_in, graph,
                   cur, day, lines, header, days, sections, spans, panic>>

\* Ok(render.into_response(forecast))
GetSpotRespondStep ==
    /\ entry = "get_spot_inner"
    /\ pc = "respond"
    /\ ret' = <<IntoResponse(args[1].render, forecast)>>
    /\ pc' = "done"
    /\ UNCHANGED <<anchors, spot_json_map, writer, requests, args, entry, build,
                   forecast, title_in, graph, cur, day, lines, header, days, sections,
                   spans, panic>>

\* get_spot_inner on every request
InitServer ==
    /\ build \in Profiles
    /\ \E c \in ServerCalls :
          /\ entry = "get_spot_inner"
          /\ pc = "resolve"
          /\ args = <<c>>
          /\ ret = <<>>
          /\ requests = <<>>
          /\ anchors = <<>>
          /\ spot_json_map = MapNew
          /\ writer = <<>>
          /\ forecast = <<>>
          /\ title_in = <<>>
          /\ graph = NoGraph
          /\ cur = <<>>
          /\ day = NoDay
          /\ lines = <<>>
          /\ header = <<>>
          /\ days = <<>>
          /\ sections = <<>>
          /\ spans = <<>>
          /\ panic = "none"

NextServer ==
    \/ GetSpotResolveStep
    \/ GetSpotFetchStep
    \/ GetSpotRespondStep

SpecServer == InitServer /\ [][NextServer]_vars

\* the text is an optional '+' and decimal digits of a value of at most U16_MAX
ReadsAsU16(text) ==
    LET number == IF text # <<>> /\ Head(text) = "+" THEN Tail(text) ELSE text
    IN /\ number # <<>>
       /\ \A i \in 1..Len(number) : number[i] \in DecimalDigits
       /\ DecimalValue(number) <= U16_MAX

\* the number a text that reads as a u16 stands for
U16Of(text) == DecimalValue(IF Head(text) = "+" THEN Tail(text) ELSE text)

\* C30: in get_spot_inner a segment that reads as a u16 is the spot id of the
\* forecast request, whatever the spot map holds, and never gives a NotFound; any
\* other segment is requested under the id the spot map has for it; a segment that
\* is neither gives the NotFound response without any forecast request, and NotFound
\* is given for no other segment; a forecast fetch that fails gives the response of
\* status 500 with no rendered body, and one that succeeds status 200.
C30_SpotResolution ==
    entry = "get_spot_inner" =>
        LET call == args[1]
            numeric == ReadsAsU16(call.spot_name)
            known == call.spot_name \in DOMAIN call.spots
        IN /\ requests # <<>> =>
                 /\ numeric \/ known
                 /\ requests = <<[spot_id |-> IF numeric THEN U16Of(call.spot_name)
                                              ELSE call.spots[call.spot_name],
                                  units |-> call.units]>>
           /\ (~numeric /\ ~known) =>
                 /\ requests = <<>>
                 /\ pc \in {"resolve", "done"}
                 /\ pc = "done" => ret = <<ErrorResponse(404, "spot name not found")>>
           /\ (pc = "done" /\ (numeric \/ known)) =>
                 /\ ret[1].status = (IF call.api.outcome = "ok" THEN 200 ELSE 500)
                 /\ call.api.outcome # "ok" => ret[1].body = <<>> /\ forecast = <<>>
                 /\ call.api.outcome = "ok" => ret[1].body # <<>>
                 /\ call.api.outcome = "missing_key" <=> requests = <<>>

\* C30 witness: the segment "4203" is also a key of the spot map, the request was
\* sent for spot 4203 and failed, and the response has status 500 and no body
C30_Witness ==
    /\ entry = "get_spot_inner"
    /\ pc = "done"
    /\ args[1].spot_name = <<"4", "2", "0", "3">>
    /\ args[1].spot_name \in DOMAIN args[1].spots
    /\ args[1].api.outcome = "send_error"
    /\ requests = <<[spot_id |-> 4203, units |-> args[1].units]>>
    /\ ret = <<ErrorResponse(500, "error sending request")>>

====
